---- MODULE Spec2Model ----
(***************************************************************************)
(* Verification model of the x-tracker sync engine (AgentSkills-Hub):      *)
(*   - followed-accounts sync (fetch-following-tweets.ts) with its cursor   *)
(*     file since_ids.json and its daily archive, and the list commands of *)
(*     notion.ts that write the same files;                                *)
(*   - the archive merge and thread-position pass (tweet-utils.ts);        *)
(*   - the tweet classifier (tweet-utils.ts);                              *)
(*   - the HTTP transport apiGet / apiPost (api.ts).                       *)
(* Item ids and created_at stamps are naturals; 0 stands for an absent     *)
(* value (JS undefined / null / "").                                       *)
(***************************************************************************)
EXTENDS Integers, Sequences, FiniteSets, TLC

\* ---------------------------------------------------------------- bounds
\* tracked accounts, and posts the platform holds in total
NumAccounts == 2
MaxTweets == 2

\* default of --max-per-user (parseMaxFlag)
MaxPerUser == 10

Accounts == 1..NumAccounts

VARIABLES
  remote,        \* the platform: remote[id] = the post with that id
  tracked,       \* filtered.json: ids of the tracked accounts
  sinceIdsFile,  \* since_ids.json: account -> cursor (0 = no entry)
  snapshotFile,  \* today's following-tweets/<date>.json: account -> tweets
  pc,            \* position of the running script
  idx,           \* loop index i of fetchFollowingTweets (1-based)
  sinceIds,      \* in-memory sinceIds of the run
  existingData,  \* in-memory existingData of the run
  errors,        \* in-memory errors counter of the run
  outcome,       \* per account: how its fetch ended in the current run
  fetched        \* per account: ids returned by its fetch in the current run

syncVars == <<remote, tracked, sinceIdsFile, snapshotFile, pc, idx, sinceIds,
              existingData, errors, outcome, fetched>>

VARIABLES
  cTweet,        \* classifier: the raw tweet handed to classifyTweet
  cParentAuthor, \* classifier: who really wrote the replied-to tweet
  cTweetsMap,    \* classifier: includes.tweets, by referenced tweet id
  cUsersMap,     \* classifier: ids of the users in includes.users
  cOut           \* classifier: the EnrichedTweet returned (kind "none" before)

clsVars == <<cTweet, cParentAuthor, cTweetsMap, cUsersMap, cOut>>

VARIABLES
  method,        \* transport: "GET" (apiGet) or "POST" (apiPost)
  apc,           \* transport: position inside the call
  log,           \* transport: what the call has done so far, in order
  result,        \* transport: what the caller got ("none" while running)
  now,           \* wall clock, seconds
  expiresAt      \* config.token_expires_at as persisted

apiVars == <<method, apc, log, result, now, expiresAt>>

VARIABLES
  configFile,    \* config.json: access_token, refresh_token, token_expires_at
  authValid,     \* token endpoint: the refresh token it accepts at present
  epoch,         \* credential model: wall clock, seconds
  tpc,           \* per process: position inside its API call
  config,        \* per process: the `config` object of the call
  retAfter,      \* per process: where refreshToken returns to
  granted,       \* per process: the token pair of a response not yet stored
  exchanges      \* every refresh exchange sent so far, in order

credVars == <<configFile, authValid, epoch, tpc, config, retAfter, granted,
              exchanges>>

VARIABLES
  myTimeline,    \* own feed: the account's posts on the platform, by id
  allFile,       \* own feed: my-tweets/all.json, the tweets array
  xNow,          \* own feed: the platform's clock, seconds
  lag            \* own feed: seconds the local clock is behind the platform's

ownVars == <<myTimeline, allFile, xNow, lag>>

VARIABLES
  bookmarked,    \* bookmarks: the account's bookmarks, most recent first
  bmSnapshot,    \* bookmarks: bookmarks/<today>.json, the tweets array
  bmLatest,      \* bookmarks: bookmarks/latest.json, the tweets array
  bmOlder,       \* bookmarks: ids held by the files of earlier days
  bmFetched      \* bookmarks: ids some syncBookmarks run has fetched

bmVars == <<bookmarked, bmSnapshot, bmLatest, bmOlder, bmFetched>>

VARIABLES
  notionPages,   \* record store: <<type, Tweet ID>> -> number of pages
  pushResult     \* record store: what the last push found and returned

notionVars == <<notionPages, pushResult>>

VARIABLES
  following,     \* following list: the accounts followed on the platform
  latestUsers,   \* following list: following/latest.json, the cached users
  filtered,      \* following list: following/filtered.json, the tracked users
  pending,       \* following list: following/pending.json
  manualInclude, \* following list: manual_include.json
  manualExclude, \* following list: manual_exclude.json
  lastOp,        \* following list: which script or command ran last
  syncReport     \* following list: what the last sync printed about unfollows

followVars == <<following, latestUsers, filtered, pending, manualInclude,
                manualExclude, lastOp, syncReport>>

VARIABLES
  ftTweets,      \* digest: tweets of following-tweets/<date>.json, in file order
  bmEntries,     \* digest: the bookmarks array of bookmarks/<date>.json
  digestJson,    \* digest: the tweets array of digest.json
  digestDone     \* digest: generateDigest has run

digestVars == <<ftTweets, bmEntries, digestJson, digestDone>>

VARIABLES
  bmFeed,        \* incremental bookmarks: the endpoint's list, newest first
  stateLastId,   \* incremental bookmarks: state.json last_id (0 = null)
  incDaily,      \* incremental bookmarks: bookmarks/<today>.json, bookmarks
  incLatest,     \* incremental bookmarks: bookmarks/latest.json, bookmarks
  incRun         \* incremental bookmarks: what the run just made did (reset
                 \*   when the feed or the day changes)

incVars == <<bmFeed, stateLastId, incDaily, incLatest, incRun>>

VARIABLES
  thrTweets,     \* assignThreadPositions: the tweet array
  thrBefore,     \* assignThreadPositions: the array before the last call
  thrCalls       \* assignThreadPositions: calls made on the array

thrVars == <<thrTweets, thrBefore, thrCalls>>

VARIABLES
  mrgFile,       \* merges: which archive, "all" (my-tweets/all.json) or
                 \*   "daily" (one account of the followed daily archive)
  mrgArchive,    \* merges: the tweets array of the archive
  mrgLast        \* merges: the archive before the last merge, and its batch

mrgVars == <<mrgFile, mrgArchive, mrgLast>>

VARIABLES
  fapPc,           \* fetchAllPages: "idle", "loop", "returned", "failed"
  allData,         \* fetchAllPages: allData
  allIncludes,     \* fetchAllPages: allIncludes, by key
  paginationToken, \* fetchAllPages: paginationToken (0 = undefined)
  fapRequests,     \* fetchAllPages: pagination_token of every request sent
  fapResponses     \* fetchAllPages: every response received, in order

fapVars == <<fapPc, allData, allIncludes, paginationToken, fapRequests,
             fapResponses>>

VARIABLES
  rateLimitReset,  \* rate-limit wait: the x-rate-limit-reset header of the 429
  dateNow,         \* rate-limit wait: Date.now(), milliseconds
  waitMs,          \* rate-limit wait: the argument of Bun.sleep
  wpc              \* rate-limit wait: "received" (the 429 is in) or "sleep"

waitVars == <<rateLimitReset, dateNow, waitMs, wpc>>

VARIABLES
  feedRemote,    \* feeds: per feed, the item ids the platform returns
  feedArchive,   \* feeds: per feed, the ids in its archive files
  feedCursor,    \* feeds: state.json last_id, newest id of since_ids.json
  feedPc,        \* feeds: per feed, the position of its sync script
  feedConfig,    \* feeds: per feed, the `config` object of the running script
  sharedConfig,  \* feeds: config.json, read and written by every script
  endpointToken  \* feeds: the refresh token the token endpoint accepts

feedVars == <<feedRemote, feedArchive, feedCursor, feedPc, feedConfig,
              sharedConfig, endpointToken>>

VARIABLES
  fwFeed,        \* forwarding: the newest item id of the feed (ids are 1..n)
  fwCursor,      \* forwarding: the persisted cursor (since_id, state.last_id)
  fwArchive,     \* forwarding: the ids merged into the archive files
  fwBatch,       \* forwarding: newTweetsForNotion / classifiedBookmarks
  fwStore,       \* forwarding: the Tweet IDs with a page in the record store
  fwPc           \* forwarding: "idle" or "push" (files written, push pending)

fwVars == <<fwFeed, fwCursor, fwArchive, fwBatch, fwStore, fwPc>>

\* what the actions of one part of the model leave alone: the other parts
exceptSync == <<clsVars, apiVars, credVars, ownVars, bmVars, notionVars,
  followVars, digestVars, incVars, thrVars, mrgVars, fapVars, waitVars,
  feedVars, fwVars>>
exceptCls == <<syncVars, apiVars, credVars, ownVars, bmVars, notionVars,
  followVars, digestVars, incVars, thrVars, mrgVars, fapVars, waitVars,
  feedVars, fwVars>>
exceptApi == <<syncVars, clsVars, credVars, ownVars, bmVars, notionVars,
  followVars, digestVars, incVars, thrVars, mrgVars, fapVars, waitVars,
  feedVars, fwVars>>
exceptCred == <<syncVars, clsVars, apiVars, ownVars, bmVars, notionVars,
  followVars, digestVars, incVars, thrVars, mrgVars, fapVars, waitVars,
  feedVars, fwVars>>
exceptOwn == <<syncVars, clsVars, apiVars, credVars, bmVars, notionVars,
  followVars, digestVars, incVars, thrVars, mrgVars, fapVars, waitVars,
  feedVars, fwVars>>
exceptBm == <<syncVars, clsVars, apiVars, credVars, ownVars, notionVars,
  followVars, digestVars, incVars, thrVars, mrgVars, fapVars, waitVars,
  feedVars, fwVars>>
exceptNotion == <<syncVars, clsVars, apiVars, credVars, ownVars, bmVars,
  followVars, digestVars, incVars, thrVars, mrgVars, fapVars, waitVars,
  feedVars, fwVars>>
exceptFollow == <<syncVars, clsVars, apiVars, credVars, ownVars, bmVars,
  notionVars, digestVars, incVars, thrVars, mrgVars, fapVars, waitVars,
  feedVars, fwVars>>
exceptDigest == <<syncVars, clsVars, apiVars, credVars, ownVars, bmVars,
  notionVars, followVars, incVars, thrVars, mrgVars, fapVars, waitVars,
  feedVars, fwVars>>
exceptInc == <<syncVars, clsVars, apiVars, credVars, ownVars, bmVars,
  notionVars, followVars, digestVars, thrVars, mrgVars, fapVars, waitVars,
  feedVars, fwVars>>
exceptThr == <<syncVars, clsVars, apiVars, credVars, ownVars, bmVars,
  notionVars, followVars, digestVars, incVars, mrgVars, fapVars, waitVars,
  feedVars, fwVars>>
exceptMrg == <<syncVars, clsVars, apiVars, credVars, ownVars, bmVars,
  notionVars, followVars, digestVars, incVars, thrVars, fapVars, waitVars,
  feedVars, fwVars>>
exceptFap == <<syncVars, clsVars, apiVars, credVars, ownVars, bmVars,
  notionVars, followVars, digestVars, incVars, thrVars, mrgVars, waitVars,
  feedVars, fwVars>>
exceptWait == <<syncVars, clsVars, apiVars, credVars, ownVars, bmVars,
  notionVars, followVars, digestVars, incVars, thrVars, mrgVars, fapVars,
  feedVars, fwVars>>
exceptFeed == <<syncVars, clsVars, apiVars, credVars, ownVars, bmVars,
  notionVars, followVars, digestVars, incVars, thrVars, mrgVars, fapVars,
  waitVars, fwVars>>
exceptFw == <<syncVars, clsVars, apiVars, credVars, ownVars, bmVars,
  notionVars, followVars, digestVars, incVars, thrVars, mrgVars, fapVars,
  waitVars, feedVars>>

\* ------------------------------------------------------- sequence helpers
Take(s, n) == SubSeq(s, 1, IF Len(s) < n THEN Len(s) ELSE n)

MaxOf(S) == CHOOSE x \in S : \A y \in S : y <= x

\* Array.prototype.sort is stable: the rank of element i is the number of
\* elements that the comparator puts before it, ties kept in array order.
Rank(keys, i) ==
  1 + Cardinality({j \in 1..Len(keys) :
                     keys[j] < keys[i] \/ (keys[j] = keys[i] /\ j < i)})

\* the permutation a stable ascending sort by keys applies
StableSortPerm(keys) ==
  [r \in 1..Len(keys) |-> CHOOSE i \in 1..Len(keys) : Rank(keys, i) = r]

\* sort((a, b) => (b.created_at ?? "").localeCompare(a.created_at ?? ""))
SortNewestFirst(tweets) ==
  LET perm == StableSortPerm([i \in 1..Len(tweets) |-> 0 - tweets[i].created_at])
  IN  [r \in 1..Len(tweets) |-> tweets[perm[r]]]

\* ------------------------------------------------------------ the merge
\* Map.set on an insertion-ordered Map keyed by tweet id
MapSetNoDedup(m, t) == Append(m, t)

\* a Map that keeps the value it already holds
MapSetKeepFirst(m, t) ==
  IF \E i \in 1..Len(m) : m[i].id = t.id THEN m ELSE Append(m, t)

MapSet(m, t) ==
  IF \E i \in 1..Len(m) : m[i].id = t.id
  THEN [i \in 1..Len(m) |-> IF m[i].id = t.id THEN t ELSE m[i]]
  ELSE Append(m, t)

RECURSIVE MapSetAll(_, _)
MapSetAll(m, ts) ==
  IF ts = <<>> THEN m ELSE MapSetAll(MapSet(m, Head(ts)), Tail(ts))

\* for (t of existing) map.set; for (t of new) map.set; values().sort(...)
MergeSorted(existing, newTweets) ==
  SortNewestFirst(MapSetAll(MapSetAll(<<>>, existing), newTweets))

\* ------------------------------------------------------ thread positions
\* indices of the tweets of conversation c, in array order
ThreadOf(tweets, c) ==
  LET RECURSIVE Collect(_)
      Collect(i) ==
        IF i > Len(tweets) THEN <<>>
        ELSE IF tweets[i].conversation_id = c THEN <<i>> \o Collect(i + 1)
        ELSE Collect(i + 1)
  IN  Collect(1)

PositionZeroBased(tweets, i) ==
  LET thread == ThreadOf(tweets, tweets[i].conversation_id)
      perm == StableSortPerm([k \in 1..Len(thread) |-> tweets[thread[k]].created_at])
  IN  (CHOOSE r \in 1..Len(thread) : thread[perm[r]] = i) - 1

\* a sort whose ties go to the item with the greater stored position
PositionInByStored(tweets, i) ==
  LET thread == ThreadOf(tweets, tweets[i].conversation_id)
      perm == StableSortPerm([k \in 1..Len(thread) |->
                                tweets[thread[k]].created_at * (Len(tweets) + 1)
                                  - tweets[thread[k]].thread_position])
  IN  CHOOSE r \in 1..Len(thread) : thread[perm[r]] = i

\* threadTweets.sort(ascending created_at); threadTweets[i].thread_position = i + 1
PositionIn(tweets, i) ==
  LET thread == ThreadOf(tweets, tweets[i].conversation_id)
      perm == StableSortPerm([k \in 1..Len(thread) |-> tweets[thread[k]].created_at])
  IN  CHOOSE r \in 1..Len(thread) : thread[perm[r]] = i

assignThreadPositions(tweets) ==
  [i \in 1..Len(tweets) |->
     IF tweets[i].conversation_id = 0 THEN tweets[i]
     ELSE IF Len(ThreadOf(tweets, tweets[i].conversation_id)) <= 1 THEN tweets[i]
     ELSE [tweets[i] EXCEPT !.thread_position = PositionIn(tweets, i)]]

\* fetch-following-tweets.ts 121-131: merge with the daily tweets, then positions
MergeDaily(existing, classifiedFetched) ==
  assignThreadPositions(MergeSorted(existing, classifiedFetched))

\* -------------------------------------------------------- the platform
\* an item as the timeline endpoint returns it (no thread_position yet)
ApiTweet(id) ==
  [id |-> id, created_at |-> remote[id].created_at,
   conversation_id |-> remote[id].conversation_id, thread_position |-> 0]

\* GET /users/:id/tweets: the account's posts newer than since_id, newest
\* first, at most max_results of them
TimelinePage(a, since, maxResults) ==
  LET RECURSIVE Down(_)
      Down(id) ==
        IF id <= since \/ id < 1 THEN <<>>
        ELSE IF remote[id].author = a THEN <<ApiTweet(id)>> \o Down(id - 1)
        ELSE Down(id - 1)
  IN  Take(Down(Len(remote)), maxResults)

\* ------------------------------------------------- followed-accounts sync
\* filtered.users, kept sorted by followers_count: account 1 has the most
Users ==
  LET RECURSIVE Up(_)
      Up(a) == IF a > NumAccounts THEN <<>>
               ELSE IF a \in tracked THEN <<a>> \o Up(a + 1) ELSE Up(a + 1)
  IN  Up(1)

LatestIdOldest(mergedTweets, sinceId) ==
  IF Len(mergedTweets) > 0 THEN mergedTweets[Len(mergedTweets)].id ELSE sinceId

\* let latestId = sinceId || null; if (merged.length > 0) latestId = merged[0].id
LatestId(mergedTweets, sinceId) ==
  IF Len(mergedTweets) > 0 THEN mergedTweets[1].id ELSE sinceId

NoTweets == [a \in Accounts |-> <<>>]

SyncInit ==
  /\ remote = <<>>
  /\ tracked = Accounts
  /\ sinceIdsFile = [a \in Accounts |-> 0]
  /\ snapshotFile = NoTweets
  /\ pc = "idle"
  /\ idx = 0
  /\ sinceIds = [a \in Accounts |-> 0]
  /\ existingData = NoTweets
  /\ errors = 0
  /\ outcome = [a \in Accounts |-> "none"]
  /\ fetched = [a \in Accounts |-> {}]

\* an account posts: in the same second as the previous post or a later one,
\* opening a conversation or continuing the one of its previous post
Post(a, tick, cont) ==
  /\ Len(remote) < MaxTweets
  /\ LET id == Len(remote) + 1
         stamp == IF remote = <<>> THEN 1 ELSE remote[Len(remote)].created_at + tick
         mine == {j \in 1..Len(remote) : remote[j].author = a}
         conv == IF cont /\ mine # {} THEN remote[MaxOf(mine)].conversation_id ELSE id
     IN  remote' = Append(remote, [author |-> a, created_at |-> stamp,
                                    conversation_id |-> conv])
  /\ UNCHANGED <<tracked, sinceIdsFile, snapshotFile, pc, idx, sinceIds,
                 existingData, errors, outcome, fetched>>
  /\ UNCHANGED exceptSync

\* fetch-following-tweets.ts 37-80: load since_ids.json and today's file
StartRun ==
  /\ pc = "idle"
  /\ pc' = "loop"
  /\ idx' = 1
  /\ sinceIds' = sinceIdsFile
  /\ existingData' = snapshotFile
  /\ errors' = 0
  /\ outcome' = [a \in Accounts |-> "none"]
  /\ fetched' = [a \in Accounts |-> {}]
  /\ UNCHANGED <<remote, tracked, sinceIdsFile, snapshotFile>>
  /\ UNCHANGED exceptSync

\* one iteration of the loop whose apiGet returns (lines 89-156)
FetchOk ==
  /\ pc = "loop" /\ idx <= Len(Users)
  /\ LET u == Users[idx]
         sinceId == sinceIds[u]
         classifiedFetched == TimelinePage(u, sinceId, MaxPerUser)
         mergedTweets == MergeDaily(existingData[u], classifiedFetched)
         latestId == LatestId(mergedTweets, sinceId)
     IN  /\ sinceIds' = [sinceIds EXCEPT ![u] = IF latestId # 0 THEN latestId ELSE @]
         /\ existingData' = [existingData EXCEPT ![u] = mergedTweets]
         /\ outcome' = [outcome EXCEPT ![u] = "ok"]
         /\ fetched' = [fetched EXCEPT ![u] =
                          {classifiedFetched[k].id : k \in 1..Len(classifiedFetched)}]
  /\ idx' = idx + 1
  /\ UNCHANGED <<remote, tracked, sinceIdsFile, snapshotFile, pc, errors>>
  /\ UNCHANGED exceptSync

\* a catch block that drops what the run had loaded for the account
FetchErrorDropsEntry ==
  /\ pc = "loop" /\ idx <= Len(Users)
  /\ errors' = errors + 1
  /\ outcome' = [outcome EXCEPT ![Users[idx]] = "err"]
  /\ existingData' = [existingData EXCEPT ![Users[idx]] = <<>>]
  /\ idx' = idx + 1
  /\ UNCHANGED <<remote, tracked, sinceIdsFile, snapshotFile, pc, sinceIds,
                 fetched>>
  /\ UNCHANGED exceptSync

\* one iteration whose apiGet throws (lines 157-160)
FetchError ==
  /\ pc = "loop" /\ idx <= Len(Users)
  /\ errors' = errors + 1
  /\ outcome' = [outcome EXCEPT ![Users[idx]] = "err"]
  /\ idx' = idx + 1
  /\ UNCHANGED <<remote, tracked, sinceIdsFile, snapshotFile, pc, sinceIds,
                 existingData, fetched>>
  /\ UNCHANGED exceptSync

\* one iteration whose apiGet throws out of refreshToken ("Token refresh
\* failed"): the throw happens inside the same try block, so the same catch
\* counts it and the loop goes on
FetchAuthError ==
  /\ pc = "loop" /\ idx <= Len(Users)
  /\ errors' = errors + 1
  /\ outcome' = [outcome EXCEPT ![Users[idx]] = "auth"]
  /\ idx' = idx + 1
  /\ UNCHANGED <<remote, tracked, sinceIdsFile, snapshotFile, pc, sinceIds,
                 existingData, fetched>>
  /\ UNCHANGED exceptSync

\* lines 116-119: newTweetsForNotion gets every classified fetched tweet of
\* the account
ForwardedToNotion(a) == fetched[a]

\* lines 163-184: write today's file (tracked accounts only), then since_ids
FinishRun ==
  /\ pc = "loop" /\ idx > Len(Users)
  /\ snapshotFile' = [a \in Accounts |-> IF a \in tracked THEN existingData[a] ELSE <<>>]
  /\ sinceIdsFile' = sinceIds
  /\ pc' = "notion"
  /\ UNCHANGED <<remote, tracked, idx, sinceIds, existingData, errors, outcome, fetched>>
  /\ UNCHANGED exceptSync

\* lines 186-206: push to the record store (errors are caught), summary;
\* the process exits and its memory is gone
NotionSync ==
  /\ pc = "notion"
  /\ pc' = "idle"
  /\ idx' = 0
  /\ sinceIds' = [a \in Accounts |-> 0]
  /\ existingData' = NoTweets
  /\ errors' = 0
  /\ outcome' = [a \in Accounts |-> "none"]
  /\ fetched' = [a \in Accounts |-> {}]
  /\ UNCHANGED <<remote, tracked, sinceIdsFile, snapshotFile>>
  /\ UNCHANGED exceptSync

\* today() changes: the daily file of the new day does not exist yet
NewDay ==
  /\ pc = "idle"
  /\ snapshotFile # NoTweets
  /\ snapshotFile' = NoTweets
  /\ UNCHANGED <<remote, tracked, sinceIdsFile, pc, idx, sinceIds, existingData,
                 errors, outcome, fetched>>
  /\ UNCHANGED exceptSync

\* notion.ts fetchAndClassifyTweets: latest tweets, no since_id, positions
fetchAndClassifyTweets(a) == assignThreadPositions(TimelinePage(a, 0, 10))

\* notion.ts addUserToTracked, the fetch succeeds
CmdAdd(a) ==
  /\ pc = "idle"
  /\ a \notin tracked
  /\ tracked' = tracked \cup {a}
  /\ LET tweets == fetchAndClassifyTweets(a)
     IN  IF Len(tweets) > 0
         THEN /\ sinceIdsFile' = [sinceIdsFile EXCEPT ![a] = tweets[1].id]
              /\ snapshotFile' = [snapshotFile EXCEPT ![a] = tweets]
         ELSE UNCHANGED <<sinceIdsFile, snapshotFile>>
  /\ UNCHANGED <<remote, pc, idx, sinceIds, existingData, errors, outcome, fetched>>
  /\ UNCHANGED exceptSync

\* notion.ts addUserToTracked, the fetch fails (fetchAndClassifyTweets returns [])
CmdAddFetchFailed(a) ==
  /\ pc = "idle"
  /\ a \notin tracked
  /\ tracked' = tracked \cup {a}
  /\ UNCHANGED <<remote, sinceIdsFile, snapshotFile, pc, idx, sinceIds,
                 existingData, errors, outcome, fetched>>
  /\ UNCHANGED exceptSync

\* notion.ts cmdRemove: the account leaves filtered.json, since_ids.json is kept
CmdRemove(a) ==
  /\ pc = "idle"
  /\ a \in tracked
  /\ tracked' = tracked \ {a}
  /\ UNCHANGED <<remote, sinceIdsFile, snapshotFile, pc, idx, sinceIds,
                 existingData, errors, outcome, fetched>>
  /\ UNCHANGED exceptSync

SyncNext ==
  \/ \E a \in Accounts, tick \in {0, 1}, cont \in BOOLEAN : Post(a, tick, cont)
  \/ StartRun
  \/ FetchOk
  \/ FetchError
  \/ FetchAuthError
  \/ FinishRun
  \/ NotionSync
  \/ NewDay
  \/ \E a \in Accounts : CmdAdd(a)
  \/ \E a \in Accounts : CmdAddFetchFailed(a)
  \/ \E a \in Accounts : CmdRemove(a)

\* ------------------------------------------------ runs that do not finish
\* the process dies between two of its file writes; what it has written
\* stays, its memory is gone

\* the sync dies inside the loop, before line 168: no file has been written
RunCrashInLoop ==
  /\ pc = "loop"
  /\ pc' = "idle"
  /\ idx' = 0
  /\ sinceIds' = [a \in Accounts |-> 0]
  /\ existingData' = NoTweets
  /\ errors' = 0
  /\ outcome' = [a \in Accounts |-> "none"]
  /\ fetched' = [a \in Accounts |-> {}]
  /\ UNCHANGED <<remote, tracked, sinceIdsFile, snapshotFile>>
  /\ UNCHANGED exceptSync

\* the sync dies between line 168 (today's file) and line 184 (since_ids)
FinishRunCrash ==
  /\ pc = "loop" /\ idx > Len(Users)
  /\ snapshotFile' = [a \in Accounts |-> IF a \in tracked THEN existingData[a] ELSE <<>>]
  /\ pc' = "idle"
  /\ idx' = 0
  /\ sinceIds' = [a \in Accounts |-> 0]
  /\ existingData' = NoTweets
  /\ errors' = 0
  /\ outcome' = [a \in Accounts |-> "none"]
  /\ fetched' = [a \in Accounts |-> {}]
  /\ UNCHANGED <<remote, tracked, sinceIdsFile>>
  /\ UNCHANGED exceptSync

\* notion.ts addUserToTracked dies between line 581 (since_ids) and line 601
\* (today's file): filtered.json and since_ids.json have been written
CmdAddCrash(a) ==
  /\ pc = "idle"
  /\ a \notin tracked
  /\ tracked' = tracked \cup {a}
  /\ LET tweets == fetchAndClassifyTweets(a)
     IN  /\ Len(tweets) > 0
         /\ sinceIdsFile' = [sinceIdsFile EXCEPT ![a] = tweets[1].id]
  /\ UNCHANGED <<remote, snapshotFile, pc, idx, sinceIds, existingData, errors,
                 outcome, fetched>>
  /\ UNCHANGED exceptSync

CrashNext ==
  \/ SyncNext
  \/ RunCrashInLoop
  \/ FinishRunCrash
  \/ \E a \in Accounts : CmdAddCrash(a)

\* ------------------------------------------------------------ the rebuild
\* rebuild script (main): looks every archived tweet up again, classifies
\* it, and writes today's file, since_ids.json and the bookmark files anew

\* lines 139-161: the tweets of an archive the lookup still returns,
\* classified (no thread_position), then numbered
Rebuilt(tweets, gone) ==
  LET found == SelectSeq(tweets, LAMBDA t : t.id \notin gone)
  IN  assignThreadPositions(
        [i \in 1..Len(found) |-> [found[i] EXCEPT !.thread_position = 0]])

\* lines 175-195: a bookmark the lookup does not return keeps what the file
\* holds, the others are classified; then numbered
RebuiltBookmarks(bookmarks, gone) ==
  assignThreadPositions(
    [i \in 1..Len(bookmarks) |->
       IF bookmarks[i].id \in gone THEN bookmarks[i]
       ELSE [bookmarks[i] EXCEPT !.thread_position = 0]])

\* lines 31-255; what follows (a new Notion database, the pushes) leaves the
\* files alone. gone, goneBm: the ids the lookup does not return (deleted
\* tweets, a failed batch)
Rebuild ==
  /\ pc = "idle"
  /\ \E gone \in SUBSET UNION {{snapshotFile[a][i].id : i \in 1..Len(snapshotFile[a])} :
                                a \in Accounts},
        goneBm \in SUBSET {incLatest[i].id : i \in 1..Len(incLatest)} :
       LET results == [a \in Accounts |->
                         IF a \in tracked
                         THEN SortNewestFirst(Rebuilt(snapshotFile[a], gone))
                         ELSE <<>>]
       IN  /\ snapshotFile' = results
           /\ sinceIdsFile' = [a \in Accounts |->
                                 IF results[a] # <<>> THEN results[a][1].id ELSE 0]
           /\ incLatest' = RebuiltBookmarks(incLatest, goneBm)
           /\ incDaily' = RebuiltBookmarks(incLatest, goneBm)
  /\ UNCHANGED <<remote, tracked, pc, idx, sinceIds, existingData, errors,
                 outcome, fetched>>
  /\ UNCHANGED <<bmFeed, stateLastId, incRun>>
  /\ UNCHANGED <<clsVars, apiVars, credVars, ownVars, bmVars, notionVars,
                 followVars, digestVars, thrVars, mrgVars, fapVars, waitVars,
                 feedVars, fwVars>>

RebuildNext ==
  \/ SyncNext
  \/ Rebuild

\* ------------------------------------------------------------ classifier
UserIds == {1, 2}

\* the ids the tweet's referenced_tweets point to: the replied-to tweet, the
\* quoted tweet
RepliedToId == 1
QuotedId == 2

\* refs.find((r) => r.type === "replied_to") / "quoted": the id, 0 if none
FindRef(tweet, type) ==
  IF type = "replied_to" THEN tweet.replied_to ELSE tweet.quoted

\* includesTweetsMap.get(id): the entry, marked absent when the id is not there
MapGet(map, id) ==
  IF id \in DOMAIN map THEN map[id]
  ELSE [present |-> FALSE, author_id |-> 0, text |-> 0]

\* a lookup that names the user whether or not the map holds it
UsernameOfUnchecked(usersMap, id) == id

\* includesUsersMap.get(id)?.username || "" (the username of user u is u)
UsernameOf(usersMap, id) == IF id # 0 /\ id \in usersMap THEN id ELSE 0

\* a self-reply test that takes any reply carrying in_reply_to_user_id as one
IsSelfReplyAnyReplyUser(replyToUserId, parentTweet, authorId) ==
  IF replyToUserId # 0
  THEN TRUE
  ELSE parentTweet.present /\ parentTweet.author_id # 0
       /\ parentTweet.author_id = authorId

\* replyToUserId ? replyToUserId === authorId : parentTweet?.author_id === authorId
IsSelfReply(replyToUserId, parentTweet, authorId) ==
  IF replyToUserId # 0
  THEN replyToUserId = authorId
  ELSE parentTweet.present /\ parentTweet.author_id # 0
       /\ parentTweet.author_id = authorId

NoOriginalTweet == [id |-> 0, text |-> 0, author_id |-> 0, author_username |-> 0]

\* the branch order of classifyTweet with the quote test first
KindOfQuoteFirst(repliedTo, quoted, noteTweet, selfReply) ==
  IF quoted # 0 THEN "quote"
  ELSE IF repliedTo # 0 THEN (IF selfReply THEN "thread" ELSE "reply")
  ELSE IF noteTweet THEN "long_form"
  ELSE "original"

\* the branch order of classifyTweet with the note_tweet test before the quote
KindOfNoteFirst(repliedTo, quoted, noteTweet, selfReply) ==
  IF repliedTo # 0 THEN (IF selfReply THEN "thread" ELSE "reply")
  ELSE IF noteTweet THEN "long_form"
  ELSE IF quoted # 0 THEN "quote"
  ELSE "original"

\* tweet-utils.ts 92-125: the kinds are 线程 thread, 回复 reply, 引用 quote,
\* 长文 long_form, 原创 original
KindOf(repliedTo, quoted, noteTweet, selfReply) ==
  IF repliedTo # 0 THEN (IF selfReply THEN "thread" ELSE "reply")
  ELSE IF quoted # 0 THEN "quote"
  ELSE IF noteTweet THEN "long_form"
  ELSE "original"

classifyTweet(tweet, authorId, includesTweetsMap, includesUsersMap) ==
  LET repliedTo == FindRef(tweet, "replied_to")
      quoted == FindRef(tweet, "quoted")
      replyToUserId == tweet.in_reply_to_user_id
      parentTweet == MapGet(includesTweetsMap, repliedTo)
      isSelfReply == IsSelfReply(replyToUserId, parentTweet, authorId)
      parentAuthorId == IF replyToUserId # 0 THEN replyToUserId
                        ELSE IF parentTweet.present THEN parentTweet.author_id
                        ELSE 0
      quotedTweet == MapGet(includesTweetsMap, quoted)
      quotedAuthorId == IF quotedTweet.present THEN quotedTweet.author_id ELSE 0
  IN  [tweet_type |-> KindOf(repliedTo, quoted, tweet.note_tweet, isSelfReply),
       original_tweet |->
         IF repliedTo # 0
         THEN [id |-> repliedTo,
               text |-> IF parentTweet.present THEN parentTweet.text ELSE 0,
               author_id |-> parentAuthorId,
               author_username |-> UsernameOf(includesUsersMap, parentAuthorId)]
         ELSE IF quoted # 0
         THEN [id |-> quoted,
               text |-> IF quotedTweet.present THEN quotedTweet.text ELSE 0,
               author_id |-> quotedAuthorId,
               author_username |-> UsernameOf(includesUsersMap, quotedAuthorId)]
         ELSE NoOriginalTweet]

\* what the API can put into includes.tweets for referenced tweet id, whose
\* real author is a: nothing, or the tweet with or without its author_id/text
IncludedTweets(a) ==
  {[present |-> FALSE, author_id |-> 0, text |-> 0]}
    \cup {[present |-> TRUE, author_id |-> x, text |-> t] : x \in {0, a}, t \in {0, 1}}

\* every raw tweet the endpoints can return, with its side-channel maps; the
\* fields that name the parent's author, when present, name the real one
ClassifyInit ==
  /\ cParentAuthor \in UserIds
  /\ \E author \in UserIds, hasAuthorId, isReply, isQuote, note \in BOOLEAN,
        knowsReplyUser \in BOOLEAN :
       cTweet = [author |-> author,
                 author_id |-> IF hasAuthorId THEN author ELSE 0,
                 replied_to |-> IF isReply THEN RepliedToId ELSE 0,
                 quoted |-> IF isQuote THEN QuotedId ELSE 0,
                 note_tweet |-> note,
                 in_reply_to_user_id |->
                   IF isReply /\ knowsReplyUser THEN cParentAuthor ELSE 0]
  /\ \E p \in IncludedTweets(cParentAuthor), quotedAuthor \in UserIds :
       \E q \in IncludedTweets(quotedAuthor) :
          cTweetsMap = [id \in {RepliedToId, QuotedId} |->
                          IF id = RepliedToId THEN p ELSE q]
  /\ cUsersMap \in SUBSET UserIds
  /\ cOut = [tweet_type |-> "none", original_tweet |-> NoOriginalTweet]

\* fetch-following-tweets.ts 112-114 and notion.ts 520-522: the tweets of the
\* timeline of account u are classified with authorId = u.id
ClassifyTimelineTweet ==
  /\ cOut.tweet_type = "none"
  /\ cOut' = classifyTweet(cTweet, cTweet.author, cTweetsMap, cUsersMap)
  /\ UNCHANGED <<cTweet, cParentAuthor, cTweetsMap, cUsersMap>>
  /\ UNCHANGED exceptCls

\* sync-bookmarks-incremental.ts 112-114: authorId = raw.author_id || ""
ClassifyBookmark ==
  /\ cOut.tweet_type = "none"
  /\ cOut' = classifyTweet(cTweet, cTweet.author_id, cTweetsMap, cUsersMap)
  /\ UNCHANGED <<cTweet, cParentAuthor, cTweetsMap, cUsersMap>>
  /\ UNCHANGED exceptCls

ClassifyNext ==
  \/ ClassifyTimelineTweet
  \/ ClassifyBookmark

\* ------------------------------------------------------------- transport
\* "Refresh 5 minutes before expiry" (seconds)
Skew == 300

\* data.expires_in of the token endpoint: access tokens expire in 2 hours
ExpiresIn == 7200

\* the clock advances in steps of Skew, MaxTicks times; a call is answered
\* 429 at most Max429 times
MaxTicks == 24
Max429 == 2

Statuses == {"r200", "r401", "r429", "r500"}

Count(s, e) == Cardinality({i \in 1..Len(s) : s[i] = e})

\* resp.ok
IsOk(status) == status = "r200"

\* config.token_expires_at && now >= config.token_expires_at - 300
NeedsRefresh(expires, clock) == expires # 0 /\ clock >= expires - Skew

\* a GET that retries a 429 at once, without the sleep
AfterResponseNoWait(m, status) ==
  IF m = "GET" /\ status = "r429" THEN "ensure"
  ELSE IF status = "r401" THEN "refresh401"
  ELSE IF ~IsOk(status) THEN "failed"
  ELSE "done"

\* a transport that answers every failure status with a refresh and a retry
AfterResponseRefreshOnError(m, status) ==
  IF m = "GET" /\ status = "r429" THEN "sleep"
  ELSE IF ~IsOk(status) THEN "refresh401"
  ELSE "done"

\* a transport that answers a 401 by starting the call over
AfterResponseStartOver(m, status) ==
  IF m = "GET" /\ status = "r429" THEN "sleep"
  ELSE IF status = "r401" THEN "ensure"
  ELSE IF ~IsOk(status) THEN "failed"
  ELSE "done"

\* api.ts 73-98 (apiGet) and 164-185 (apiPost): where the first response leads
AfterResponse(m, status) ==
  IF m = "GET" /\ status = "r429" THEN "sleep"
  ELSE IF status = "r401" THEN "refresh401"
  ELSE IF ~IsOk(status) THEN "failed"
  ELSE "done"

\* a retry that treats a second 401 like the first one
AfterRetryRefreshAgain(status) ==
  IF status = "r401" THEN "refresh401"
  ELSE IF ~IsOk(status) THEN "failed"
  ELSE "done"

\* api.ts 88-91 and 175-178: where the response to the retried request leads
AfterRetry(status) == IF ~IsOk(status) THEN "failed" ELSE "done"

ResultOf(position) ==
  IF position = "done" THEN "ok" ELSE IF position = "failed" THEN "error" ELSE "none"

ApiInit ==
  /\ method = "GET"
  /\ apc = "idle"
  /\ log = <<>>
  /\ result = "none"
  /\ now = 0
  /\ expiresAt \in {0, ExpiresIn}

\* time passes
Tick ==
  /\ now < MaxTicks * Skew
  /\ now' = now + Skew
  /\ UNCHANGED <<method, apc, log, result, expiresAt>>
  /\ UNCHANGED exceptApi

\* a caller enters apiGet or apiPost
ApiCall(m) ==
  /\ apc = "idle"
  /\ method' = m
  /\ apc' = "ensure"
  /\ log' = <<>>
  /\ result' = "none"
  /\ UNCHANGED <<now, expiresAt>>
  /\ UNCHANGED exceptApi

\* loadConfig + ensureValidToken, the token is not within the skew
EnsureFresh ==
  /\ apc = "ensure"
  /\ ~NeedsRefresh(expiresAt, now)
  /\ apc' = "send"
  /\ UNCHANGED <<method, log, result, now, expiresAt>>
  /\ UNCHANGED exceptApi

\* ensureValidToken refreshes, the exchange succeeds and the config is saved
EnsureRefreshOk ==
  /\ apc = "ensure"
  /\ NeedsRefresh(expiresAt, now)
  /\ expiresAt' = now + ExpiresIn
  /\ log' = Append(log, "ensure_refresh_ok")
  /\ apc' = "send"
  /\ UNCHANGED <<method, result, now>>
  /\ UNCHANGED exceptApi

\* ensureValidToken refreshes, the exchange is rejected: refreshToken throws
EnsureRefreshFail ==
  /\ apc = "ensure"
  /\ NeedsRefresh(expiresAt, now)
  /\ log' = Append(log, "ensure_refresh_fail")
  /\ apc' = "failed"
  /\ result' = "error"
  /\ UNCHANGED <<method, now, expiresAt>>
  /\ UNCHANGED exceptApi

\* fetch(url, ...) is issued
Send ==
  /\ apc = "send"
  /\ log' = Append(log, "send")
  /\ apc' = "await"
  /\ UNCHANGED <<method, result, now, expiresAt>>
  /\ UNCHANGED exceptApi

\* the server answers the first request of this pass
Receive(status) ==
  /\ apc = "await"
  /\ status = "r429" => Count(log, "r429") < Max429
  /\ log' = Append(log, status)
  /\ apc' = AfterResponse(method, status)
  /\ result' = ResultOf(AfterResponse(method, status))
  /\ UNCHANGED <<method, now, expiresAt>>
  /\ UNCHANGED exceptApi

\* fetch rejects (network error, the 30 s AbortSignal): the call throws
FetchThrows ==
  /\ apc \in {"await", "retry_await"}
  /\ log' = Append(log, "throw")
  /\ apc' = "failed"
  /\ result' = "error"
  /\ UNCHANGED <<method, now, expiresAt>>
  /\ UNCHANGED exceptApi

\* await Bun.sleep(waitMs); return apiGet(path, params)
Sleep ==
  /\ apc = "sleep"
  /\ log' = Append(log, "sleep")
  /\ apc' = "ensure"
  /\ UNCHANGED <<method, result, now, expiresAt>>
  /\ UNCHANGED exceptApi

\* on 401: config = await refreshToken(config), the exchange succeeds
Refresh401Ok ==
  /\ apc = "refresh401"
  /\ expiresAt' = now + ExpiresIn
  /\ log' = Append(log, "forced_refresh_ok")
  /\ apc' = "retry_send"
  /\ UNCHANGED <<method, result, now>>
  /\ UNCHANGED exceptApi

\* on 401: refreshToken throws
Refresh401Fail ==
  /\ apc = "refresh401"
  /\ log' = Append(log, "forced_refresh_fail")
  /\ apc' = "failed"
  /\ result' = "error"
  /\ UNCHANGED <<method, now, expiresAt>>
  /\ UNCHANGED exceptApi

\* the retried fetch is issued
RetrySend ==
  /\ apc = "retry_send"
  /\ log' = Append(log, "send")
  /\ apc' = "retry_await"
  /\ UNCHANGED <<method, result, now, expiresAt>>
  /\ UNCHANGED exceptApi

\* the server answers the retried request
RetryReceive(status) ==
  /\ apc = "retry_await"
  /\ log' = Append(log, status)
  /\ apc' = AfterRetry(status)
  /\ result' = ResultOf(AfterRetry(status))
  /\ UNCHANGED <<method, now, expiresAt>>
  /\ UNCHANGED exceptApi

\* the call has returned or thrown; the caller goes on
Return ==
  /\ apc \in {"done", "failed"}
  /\ apc' = "idle"
  /\ log' = <<>>
  /\ result' = "none"
  /\ UNCHANGED <<method, now, expiresAt>>
  /\ UNCHANGED exceptApi

ApiNext ==
  \/ Tick
  \/ \E m \in {"GET", "POST"} : ApiCall(m)
  \/ EnsureFresh
  \/ EnsureRefreshOk
  \/ EnsureRefreshFail
  \/ Send
  \/ \E status \in Statuses : Receive(status)
  \/ FetchThrows
  \/ Sleep
  \/ Refresh401Ok
  \/ Refresh401Fail
  \/ RetrySend
  \/ \E status \in Statuses : RetryReceive(status)
  \/ Return

\* ----------------------------------------------------------- credentials
\* processes (scripts) that share config.json, refresh exchanges per run of
\* the model, and token lifetimes the clock can advance by
NumProcs == 2
MaxExchanges == 3
MaxLifetimes == 1

Procs == 1..NumProcs

\* token pairs are numbered in the order the token endpoint issues them
Credentials(pair, expires) ==
  [access_token |-> pair, refresh_token |-> pair, token_expires_at |-> expires]

\* a refresh that stores the new access token and expiry but keeps the old
\* refresh token
RefreshedKeepRefreshToken(cfg, pair, t) ==
  [cfg EXCEPT !.access_token = pair, !.token_expires_at = t + ExpiresIn]

\* api.ts 34-37: config.access_token, config.refresh_token, token_expires_at
Refreshed(cfg, pair, t) ==
  [cfg EXCEPT !.access_token = pair, !.refresh_token = pair,
              !.token_expires_at = t + ExpiresIn]

\* the last exchange process p has sent
LastOf(p) ==
  CHOOSE i \in 1..Len(exchanges) :
    /\ exchanges[i].proc = p
    /\ \A j \in 1..Len(exchanges) : exchanges[j].proc = p => j <= i

\* after `auth.ts login`: pair 1 stored, valid for ExpiresIn
CredInit ==
  /\ configFile = Credentials(1, ExpiresIn)
  /\ authValid = 1
  /\ epoch = 0
  /\ tpc = [p \in Procs |-> "idle"]
  /\ config = [p \in Procs |-> Credentials(0, 0)]
  /\ retAfter = [p \in Procs |-> "send"]
  /\ granted = [p \in Procs |-> 0]
  /\ exchanges = <<>>

\* a token lifetime passes (between two runs, or during a long one)
LifetimePasses ==
  /\ epoch < MaxLifetimes * ExpiresIn
  /\ epoch' = epoch + ExpiresIn
  /\ UNCHANGED <<configFile, authValid, tpc, config, retAfter, granted, exchanges>>
  /\ UNCHANGED exceptCred

\* apiGet / apiPost: let config = loadConfig()
LoadConfig(p) ==
  /\ tpc[p] = "idle"
  /\ config' = [config EXCEPT ![p] = configFile]
  /\ tpc' = [tpc EXCEPT ![p] = "ensure"]
  /\ retAfter' = [retAfter EXCEPT ![p] = "send"]
  /\ UNCHANGED <<configFile, authValid, epoch, granted, exchanges>>
  /\ UNCHANGED exceptCred

\* a call of a script that runs while no other script does
LoadConfigAlone(p) ==
  /\ \A q \in Procs : tpc[q] = "idle"
  /\ LoadConfig(p)

\* ensureValidToken: refresh when within the skew, else go on to the request
EnsureValidToken(p) ==
  /\ tpc[p] = "ensure"
  /\ tpc' = [tpc EXCEPT ![p] =
               IF NeedsRefresh(config[p].token_expires_at, epoch)
               THEN "refresh" ELSE "send"]
  /\ UNCHANGED <<configFile, authValid, epoch, config, retAfter, granted, exchanges>>
  /\ UNCHANGED exceptCred

\* refreshToken: POST oauth2/token with refresh_token = config.refresh_token
RefreshSend(p) ==
  /\ tpc[p] = "refresh"
  /\ Len(exchanges) < MaxExchanges
  /\ exchanges' = Append(exchanges, [proc |-> p,
                                      sent |-> config[p].refresh_token,
                                      status |-> "flight"])
  /\ tpc' = [tpc EXCEPT ![p] = "exchange"]
  /\ UNCHANGED <<configFile, authValid, epoch, config, retAfter, granted>>
  /\ UNCHANGED exceptCred

\* the token endpoint accepts the refresh token, which is the one it holds
\* valid, and rotates: the next pair is issued and the old one is spent
TokenGranted(p) ==
  /\ tpc[p] = "exchange"
  /\ exchanges[LastOf(p)].sent = authValid
  /\ authValid' = authValid + 1
  /\ granted' = [granted EXCEPT ![p] = authValid + 1]
  /\ exchanges' = [exchanges EXCEPT ![LastOf(p)].status = "ok"]
  /\ tpc' = [tpc EXCEPT ![p] = "store"]
  /\ UNCHANGED <<configFile, epoch, config, retAfter>>
  /\ UNCHANGED exceptCred

\* the token endpoint answers non-2xx (a spent or revoked refresh token, a
\* server error): refreshToken throws "Token refresh failed", the call ends
TokenRejected(p) ==
  /\ tpc[p] = "exchange"
  /\ exchanges' = [exchanges EXCEPT ![LastOf(p)].status = "rejected"]
  /\ tpc' = [tpc EXCEPT ![p] = "idle"]
  /\ UNCHANGED <<configFile, authValid, epoch, config, retAfter, granted>>
  /\ UNCHANGED exceptCred

\* refreshToken 34-40: set the three fields, saveConfig(config), return config
StoreTokens(p) ==
  /\ tpc[p] = "store"
  /\ LET fresh == Refreshed(config[p], granted[p], epoch)
     IN  /\ config' = [config EXCEPT ![p] = fresh]
         /\ configFile' = fresh
  /\ granted' = [granted EXCEPT ![p] = 0]
  /\ tpc' = [tpc EXCEPT ![p] = retAfter[p]]
  /\ UNCHANGED <<authValid, epoch, retAfter, exchanges>>
  /\ UNCHANGED exceptCred

\* the request is answered, and not with 401: the call returns or throws
RequestAnswered(p) ==
  /\ tpc[p] = "send"
  /\ tpc' = [tpc EXCEPT ![p] = "idle"]
  /\ UNCHANGED <<configFile, authValid, epoch, config, retAfter, granted, exchanges>>
  /\ UNCHANGED exceptCred

\* the request is answered 401: config = await refreshToken(config)
Request401(p) ==
  /\ tpc[p] = "send"
  /\ tpc' = [tpc EXCEPT ![p] = "refresh"]
  /\ retAfter' = [retAfter EXCEPT ![p] = "resend"]
  /\ UNCHANGED <<configFile, authValid, epoch, config, granted, exchanges>>
  /\ UNCHANGED exceptCred

\* the retried request is answered: the call returns or throws
RetryAnswered(p) ==
  /\ tpc[p] = "resend"
  /\ tpc' = [tpc EXCEPT ![p] = "idle"]
  /\ UNCHANGED <<configFile, authValid, epoch, config, retAfter, granted, exchanges>>
  /\ UNCHANGED exceptCred

\* what a call does once it has loaded the config
CallStep(p) ==
  \/ EnsureValidToken(p)
  \/ RefreshSend(p)
  \/ TokenGranted(p)
  \/ TokenRejected(p)
  \/ StoreTokens(p)
  \/ RequestAnswered(p)
  \/ Request401(p)
  \/ RetryAnswered(p)

\* calls made one after the other, by one script or by several
CredNextSequential ==
  \/ LifetimePasses
  \/ \E p \in Procs : LoadConfigAlone(p)
  \/ \E p \in Procs : CallStep(p)

\* calls of scripts that run at the same time
CredNextConcurrent ==
  \/ LifetimePasses
  \/ \E p \in Procs : LoadConfig(p)
  \/ \E p \in Procs : CallStep(p)

\* -------------------------------------------------------------- own feed
\* posts of the own account, seconds the platform's clock can advance, and
\* seconds the local clock can be behind it
MaxOwnTweets == 3
MaxOwnTime == 3
MaxLag == 1

\* loadSinceId: the largest id of all.json (by BigInt), null (0) when empty
loadSinceId(tweets) ==
  IF tweets = <<>> THEN 0 ELSE MaxOf({tweets[i].id : i \in 1..Len(tweets)})

\* fetchAllPages on /users/:id/tweets: every own post above since_id, newest
\* first, all pages (without since_id: those since start_time, here all)
MyTimelinePages(since) ==
  LET RECURSIVE Down(_)
      Down(id) ==
        IF id <= since \/ id < 1 THEN <<>>
        ELSE <<[id |-> id, created_at |-> myTimeline[id]]>> \o Down(id - 1)
  IN  Down(Len(myTimeline))

\* post-tweet: "Prepend (newest first), dedupe"
RecordPosted(existing, newTweet) ==
  IF \E i \in 1..Len(existing) : existing[i].id = newTweet.id
  THEN existing ELSE <<newTweet>> \o existing

OwnInit ==
  /\ myTimeline = <<>>
  /\ allFile = <<>>
  /\ xNow = 1
  /\ lag \in 0..MaxLag

\* a second passes
OwnTick ==
  /\ xNow < MaxOwnTime
  /\ xNow' = xNow + 1
  /\ UNCHANGED <<myTimeline, allFile, lag>>
  /\ UNCHANGED exceptOwn

\* the account posts from another client: only the platform knows the tweet
PostElsewhere ==
  /\ Len(myTimeline) < MaxOwnTweets
  /\ myTimeline' = Append(myTimeline, xNow)
  /\ UNCHANGED <<allFile, xNow, lag>>
  /\ UNCHANGED exceptOwn

\* analyze.ts post-tweet: apiPost("/tweets") creates the tweet, then the
\* script records it in all.json with created_at = new Date() (local clock)
PostTweet ==
  /\ Len(myTimeline) < MaxOwnTweets
  /\ myTimeline' = Append(myTimeline, xNow)
  /\ allFile' = RecordPosted(allFile, [id |-> Len(myTimeline) + 1,
                                        created_at |-> xNow - lag])
  /\ UNCHANGED <<xNow, lag>>
  /\ UNCHANGED exceptOwn

\* fetchMyTweets: since_id from all.json, fetch all pages, mergeIntoAll
FetchMyTweets ==
  /\ allFile' = MergeSorted(allFile, MyTimelinePages(loadSinceId(allFile)))
  /\ UNCHANGED <<myTimeline, xNow, lag>>
  /\ UNCHANGED exceptOwn

OwnNext ==
  \/ OwnTick
  \/ PostElsewhere
  \/ PostTweet
  \/ FetchMyTweets

\* ------------------------------------------- the full bookmark sync
\* sync-bookmarks.ts: every run downloads the whole bookmark list and writes
\* it to the file of the day and to latest.json

MaxBookmarks == 3

SeqIds(s) == {s[i] : i \in 1..Len(s)}

Without(s, id) == SelectSeq(s, LAMBDA x : x # id)

BmInit ==
  /\ bookmarked = <<>>
  /\ bmSnapshot = <<>>
  /\ bmLatest = <<>>
  /\ bmOlder = {}
  /\ bmFetched = {}

\* the user bookmarks a post: the endpoint lists it first
AddBookmark(id) ==
  /\ id \notin SeqIds(bookmarked)
  /\ bookmarked' = <<id>> \o bookmarked
  /\ UNCHANGED <<bmSnapshot, bmLatest, bmOlder, bmFetched>>
  /\ UNCHANGED exceptBm

\* the user removes a bookmark: the endpoint no longer lists it
RemoveBookmark(id) ==
  /\ id \in SeqIds(bookmarked)
  /\ bookmarked' = Without(bookmarked, id)
  /\ UNCHANGED <<bmSnapshot, bmLatest, bmOlder, bmFetched>>
  /\ UNCHANGED exceptBm

\* sync-bookmarks.ts syncBookmarks 33-120: fetchAllPages returns the whole
\* list (57-62), both files are written with exactly that list (83-114)
syncBookmarks ==
  /\ LET tweets == bookmarked
     IN  /\ bmSnapshot' = tweets
         /\ bmLatest' = tweets
         /\ bmFetched' = bmFetched \cup SeqIds(tweets)
  /\ UNCHANGED <<bookmarked, bmOlder>>
  /\ UNCHANGED exceptBm

\* today() changes: the file of the old day stays on disk, the file of the
\* new day does not exist yet
BmNewDay ==
  /\ bmSnapshot # <<>>
  /\ bmOlder' = bmOlder \cup SeqIds(bmSnapshot)
  /\ bmSnapshot' = <<>>
  /\ UNCHANGED <<bookmarked, bmLatest, bmFetched>>
  /\ UNCHANGED exceptBm

BmNext ==
  \/ \E id \in 1..MaxBookmarks : AddBookmark(id)
  \/ \E id \in 1..MaxBookmarks : RemoveBookmark(id)
  \/ syncBookmarks
  \/ BmNewDay

\* ------------------------------------------------- the push to Notion
\* notion.ts queryExistingIds, createPage, syncTweetsToNotion,
\* syncBookmarksToNotion: one database, pages told apart by type and Tweet ID

MaxNotionIds == 2
MaxBatch == 2
MaxPages == 2

\* the select values of the two kinds of tweet pages
RecordTypes == {"tweet", "bookmark"}

PageKeys == RecordTypes \X (1..MaxNotionIds)

\* what a caller may hand over: any ids, in any order, repeats included
Batches == UNION {[1..n -> 1..MaxNotionIds] : n \in 0..MaxBatch}

\* notion.ts 93-136: one query for the chunk; a query that is answered
\* non-2xx is logged and skipped, its ids count as not existing
queryExistingIds(type, ids, queryOk) ==
  IF queryOk THEN {id \in SeqIds(ids) : notionPages[<<type, id>>] > 0} ELSE {}

\* how many of the pages posted for id were created
CreatedFor(newTweets, createOk, id) ==
  Cardinality({i \in 1..Len(newTweets) : newTweets[i] = id /\ createOk[i]})

NotionInit ==
  /\ notionPages = [k \in PageKeys |-> 0]
  /\ pushResult = [type |-> "none", allExisted |-> FALSE, created |-> 0]

\* notion.ts 249-266 and 364-379: query, filter, createPage for each item
\* left, count the pages created (createPage returns false on a non-2xx)
PushBatch(type, batch, queryOk) ==
  LET existing == queryExistingIds(type, batch, queryOk)
      newTweets == SelectSeq(batch, LAMBDA id : id \notin existing)
  IN  \E createOk \in [1..Len(newTweets) -> BOOLEAN] :
        /\ \A id \in 1..MaxNotionIds :
              notionPages[<<type, id>>] + CreatedFor(newTweets, createOk, id)
                <= MaxPages
        /\ notionPages' =
              [k \in PageKeys |->
                 IF k[1] = type
                 THEN notionPages[k] + CreatedFor(newTweets, createOk, k[2])
                 ELSE notionPages[k]]
        /\ pushResult' =
              [type |-> type,
               allExisted |-> \A id \in SeqIds(batch) : notionPages[<<type, id>>] > 0,
               created |-> Cardinality({i \in 1..Len(newTweets) : createOk[i]})]
        /\ UNCHANGED exceptNotion

syncTweetsToNotion ==
  \E batch \in Batches, queryOk \in BOOLEAN : PushBatch("tweet", batch, queryOk)

syncBookmarksToNotion ==
  \E batch \in Batches, queryOk \in BOOLEAN : PushBatch("bookmark", batch, queryOk)

NotionNext ==
  \/ syncTweetsToNotion
  \/ syncBookmarksToNotion

\* ------------------------------------------------- the following list
\* weeklySyncFollowing and the commands of manage-following.ts, as far as
\* they touch the list files (the tweets an added account brings along are
\* CmdAdd of the sync model); an account is its id, its username names it

NumFollowUsers == 2

FollowUsers == 1..NumFollowUsers

\* an updated list that also takes in the new qualified follows
UpdatedFilteredAutoAdd(users, currentIds, manualIncludes, newQualified) ==
  {u \in users : u \in currentIds \/ u \in manualIncludes} \cup newQualified

\* an updated list that keeps the current follows only
UpdatedFilteredFollowedOnly(users, currentIds, manualIncludes, newQualified) ==
  {u \in users : u \in currentIds}

\* updatedFiltered: filtered.users.filter(current follow or manual include)
UpdatedFiltered(users, currentIds, manualIncludes, newQualified) ==
  {u \in users : u \in currentIds \/ u \in manualIncludes}

\* what a sync prints about the tracked accounts that are not followed any
\* more: "Removing (unfollowed)" and "Kept (manual include, unfollowed)"
NoReport == [removable |-> {}, protected_ |-> {}]

\* the lists after the first sync and the filter step that fetch-following-
\* tweets.ts asks for ("Run sync-following.ts and filter first"): some of
\* the followed accounts are tracked, none of them by a command
FollowInit ==
  /\ \E followed \in SUBSET FollowUsers :
       /\ following = followed
       /\ latestUsers = followed
       /\ filtered \in SUBSET followed
  /\ pending = {}
  /\ manualInclude = {}
  /\ manualExclude = {}
  /\ lastOp = "none"
  /\ syncReport = NoReport

\* the user follows an account on the platform
Follow(u) ==
  /\ u \notin following
  /\ following' = following \cup {u}
  /\ lastOp' = "follow"
  /\ UNCHANGED <<latestUsers, filtered, pending, manualInclude, manualExclude,
                 syncReport>>
  /\ UNCHANGED exceptFollow

\* the user unfollows an account on the platform
Unfollow(u) ==
  /\ u \in following
  /\ following' = following \ {u}
  /\ lastOp' = "unfollow"
  /\ UNCHANGED <<latestUsers, filtered, pending, manualInclude, manualExclude,
                 syncReport>>
  /\ UNCHANGED exceptFollow

\* weeklySyncFollowing with the user lookup and the pending queue: profiles
\* is what GET /users returned for the new ids, techProfiles those of them
\* whose followers and description pass isQualified
weeklySyncFollowing ==
  \E profiles \in SUBSET (following \ latestUsers) :
  \E techProfiles \in SUBSET profiles :
    LET currentIds == following
        newIds == following \ latestUsers
        removedFromFiltered == filtered \ currentIds
        newUsersData == IF newIds = {} THEN {} ELSE profiles
        newQualified == {u \in newUsersData :
                           u \in techProfiles /\ u \notin manualExclude}
        trulyNewPending == (newQualified \ pending) \ filtered
    IN  /\ newIds = {} => profiles = {}
        /\ lastOp' = "sync"
        /\ IF newIds = {} /\ removedFromFiltered = {}
           THEN /\ syncReport' = NoReport
                /\ UNCHANGED <<latestUsers, filtered, pending>>
           ELSE /\ latestUsers' = currentIds \cap (latestUsers \cup newUsersData)
                /\ pending' = pending \cup trulyNewPending
                /\ syncReport' = [removable |-> removedFromFiltered \ manualInclude,
                                  protected_ |-> removedFromFiltered \cap manualInclude]
                /\ filtered' = UpdatedFiltered(filtered, currentIds,
                                                manualInclude, newQualified)
        /\ UNCHANGED <<following, manualInclude, manualExclude>>
        /\ UNCHANGED exceptFollow

\* weeklySyncFollowing without the user lookup: new follows are cached with
\* id and username and only printed
weeklySyncFollowingBasic ==
  LET currentIds == following
      newIds == following \ latestUsers
      removedFromFiltered == filtered \ currentIds
  IN  /\ lastOp' = "sync"
      /\ IF newIds = {} /\ removedFromFiltered = {}
         THEN /\ syncReport' = NoReport
              /\ UNCHANGED <<latestUsers, filtered>>
         ELSE /\ latestUsers' = currentIds
              /\ syncReport' = [removable |-> removedFromFiltered \ manualInclude,
                                protected_ |-> removedFromFiltered \cap manualInclude]
              /\ filtered' = UpdatedFiltered(filtered, currentIds, manualInclude, {})
      /\ UNCHANGED <<following, pending, manualInclude, manualExclude>>
      /\ UNCHANGED exceptFollow

\* addUserToTracked 533-558: nothing when already tracked; else the account
\* enters filtered.json and manual_include.json and leaves manual_exclude.json
AddedToTracked(users) ==
  /\ filtered' = filtered \cup users
  /\ manualInclude' = manualInclude \cup (users \ filtered)
  /\ manualExclude' = manualExclude \ (users \ filtered)

\* manage-following.ts add <username>
cmdAdd(u) ==
  /\ AddedToTracked({u})
  /\ lastOp' = "add"
  /\ UNCHANGED <<following, latestUsers, pending, syncReport>>
  /\ UNCHANGED exceptFollow

\* manage-following.ts remove <username>
cmdRemove(u) ==
  /\ u \in filtered
  /\ filtered' = filtered \ {u}
  /\ manualExclude' = manualExclude \cup {u}
  /\ manualInclude' = manualInclude \ {u}
  /\ lastOp' = "remove"
  /\ UNCHANGED <<following, latestUsers, pending, syncReport>>
  /\ UNCHANGED exceptFollow

\* manage-following.ts approve <username> | --all
cmdApprove(toApprove) ==
  /\ toApprove # {}
  /\ toApprove = pending \/ \E u \in pending : toApprove = {u}
  /\ pending' = pending \ toApprove
  /\ AddedToTracked(toApprove)
  /\ lastOp' = "approve"
  /\ UNCHANGED <<following, latestUsers, syncReport>>
  /\ UNCHANGED exceptFollow

\* manage-following.ts reject <username> | --all
cmdReject(toReject) ==
  /\ toReject # {}
  /\ toReject = pending \/ \E u \in pending : toReject = {u}
  /\ pending' = pending \ toReject
  /\ manualExclude' = manualExclude \cup toReject
  /\ lastOp' = "reject"
  /\ UNCHANGED <<following, latestUsers, filtered, manualInclude, syncReport>>
  /\ UNCHANGED exceptFollow

FollowNext ==
  \/ \E u \in FollowUsers : Follow(u)
  \/ \E u \in FollowUsers : Unfollow(u)
  \/ weeklySyncFollowing
  \/ weeklySyncFollowingBasic
  \/ \E u \in FollowUsers : cmdAdd(u)
  \/ \E u \in FollowUsers : cmdRemove(u)
  \/ \E us \in SUBSET FollowUsers : cmdApprove(us)
  \/ \E us \in SUBSET FollowUsers : cmdReject(us)

\* cmdApprove that ends part-way (the process is interrupted, or a file
\* operation of addUserToTracked throws): pending.json was saved without
\* toApprove at line 729, `done` are the users whose addUserToTracked had
\* written the lists by then
cmdApproveCrash(toApprove, done) ==
  /\ toApprove # {}
  /\ toApprove = pending \/ \E u \in pending : toApprove = {u}
  /\ done \subseteq toApprove /\ done # toApprove
  /\ pending' = pending \ toApprove
  /\ AddedToTracked(done)
  /\ lastOp' = "approve"
  /\ UNCHANGED <<following, latestUsers, syncReport>>
  /\ UNCHANGED exceptFollow

\* cmdReject that ends between savePending (line 765) and saveManualExclude
\* (line 773)
cmdRejectCrash(toReject) ==
  /\ toReject # {}
  /\ toReject = pending \/ \E u \in pending : toReject = {u}
  /\ pending' = pending \ toReject
  /\ lastOp' = "reject"
  /\ UNCHANGED <<following, latestUsers, filtered, manualInclude, manualExclude,
                 syncReport>>
  /\ UNCHANGED exceptFollow

FollowCrashNext ==
  \/ FollowNext
  \/ \E us \in SUBSET FollowUsers, done \in SUBSET FollowUsers :
       cmdApproveCrash(us, done)
  \/ \E us \in SUBSET FollowUsers : cmdRejectCrash(us)

\* --------------------------------------------------------- the digest
\* analyze.ts scoreTweet, loadScoredTweets, generateDigest

DigestTop == 20
NumDigestTweets == 22

\* the tweets the files can hold, without their id: a tweet without
\* public_metrics, one like, one retweet, one bookmark, a retweeted reply and
\* a retweeted tweet of another day
TweetShape(m, l, r, b, reply, day) ==
  [has_metrics |-> m, like_count |-> l, retweet_count |-> r,
   bookmark_count |-> b, reply |-> reply, on_date |-> day]

PlainShape == TweetShape(FALSE, 0, 0, 0, FALSE, TRUE)

TweetShapes ==
  {PlainShape,
   TweetShape(TRUE, 1, 0, 0, FALSE, TRUE),
   TweetShape(TRUE, 0, 1, 0, FALSE, TRUE),
   TweetShape(TRUE, 0, 0, 1, FALSE, TRUE),
   TweetShape(TRUE, 0, 1, 0, TRUE, TRUE),
   TweetShape(TRUE, 0, 1, 0, FALSE, FALSE)}

DigestTweet(shape, id, source) ==
  [id |-> id, source |-> source,
   has_metrics |-> shape.has_metrics, like_count |-> shape.like_count,
   retweet_count |-> shape.retweet_count,
   bookmark_count |-> shape.bookmark_count,
   reply |-> shape.reply, on_date |-> shape.on_date]

\* the places of the following file where the tweets differ: the first, the
\* last one inside the cut and the first one behind it
VariedPositions == {1, DigestTop, DigestTop + 1}

\* the bookmarks file holds a tweet of the following file, a tweet of its
\* own, both or none
BookmarkFiles ==
  LET dups == {<<>>} \cup
              {<<DigestTweet(sh, DigestTop + 1, "file")>> : sh \in TweetShapes}
      extras == {<<>>} \cup
                {<<DigestTweet(sh, NumDigestTweets + 1, "file")>> : sh \in TweetShapes}
  IN  {d \o e : d \in dups, e \in extras}

DigestInit ==
  /\ \E pick \in [VariedPositions -> TweetShapes] :
       ftTweets = [i \in 1..NumDigestTweets |->
                     DigestTweet(IF i \in VariedPositions THEN pick[i]
                                 ELSE PlainShape, i, "file")]
  /\ bmEntries \in BookmarkFiles
  /\ digestJson = <<>>
  /\ digestDone = FALSE

\* a ranking by likes alone
ScoreLikesOnly(t) == IF ~t.has_metrics THEN 0 ELSE t.like_count

\* analyze.ts 21-25
scoreTweet(t) ==
  IF ~t.has_metrics THEN 0
  ELSE t.like_count + t.retweet_count * 3 + t.bookmark_count * 2

\* lines 63-77: if (!seen.has(tweet.id)) seen.set(tweet.id, {.. "following"})
RECURSIVE SeenFollowing(_, _)
SeenFollowing(seen, tweets) ==
  IF tweets = <<>> THEN seen
  ELSE LET t == Head(tweets)
       IN  SeenFollowing(IF \E i \in 1..Len(seen) : seen[i].id = t.id
                         THEN seen
                         ELSE Append(seen, [t EXCEPT !.source = "following"]),
                         Tail(tweets))

\* lines 80-95: a bookmark not seen yet is added, a seen one is marked "both"
RECURSIVE SeenBookmarks(_, _)
SeenBookmarks(seen, tweets) ==
  IF tweets = <<>> THEN seen
  ELSE LET t == Head(tweets)
       IN  SeenBookmarks(IF \E i \in 1..Len(seen) : seen[i].id = t.id
                         THEN [i \in 1..Len(seen) |->
                                 IF seen[i].id = t.id
                                 THEN [seen[i] EXCEPT !.source = "both"]
                                 ELSE seen[i]]
                         ELSE Append(seen, [t EXCEPT !.source = "bookmark"]),
                         Tail(tweets))

\* line 114: filtered.sort((a, b) => scoreTweet(b) - scoreTweet(a))
\* (the sort is stable: a tweet goes behind the tweets before it in the array
\* that score as much or more)
RECURSIVE SortByScoreInto(_, _)
SortByScoreInto(sorted, tweets) ==
  IF tweets = <<>> THEN sorted
  ELSE LET t == Head(tweets)
           k == Cardinality({i \in 1..Len(sorted) :
                               scoreTweet(sorted[i]) >= scoreTweet(t)})
       IN  SortByScoreInto(SubSeq(sorted, 1, k) \o <<t>>
                             \o SubSeq(sorted, k + 1, Len(sorted)),
                           Tail(tweets))

SortByScore(tweets) == SortByScoreInto(<<>>, tweets)

\* lines 59-119: dedupe, drop replies and tweets of other days, sort
loadScoredTweets(ftData, bmData) ==
  LET seen == SeenBookmarks(SeenFollowing(<<>>, ftData), bmData)
      kept == SelectSeq(seen, LAMBDA t : ~t.reply /\ t.on_date)
  IN  SortByScore(kept)

\* lines 123-201: nothing is written when there is no candidate; else the
\* first 20 go to digest.md and digest.json
generateDigest ==
  /\ ~digestDone
  /\ LET allTweets == loadScoredTweets(ftTweets, bmEntries)
     IN  digestJson' = IF Len(allTweets) = 0 THEN digestJson
                       ELSE Take(allTweets, DigestTop)
  /\ digestDone' = TRUE
  /\ UNCHANGED <<ftTweets, bmEntries>>
  /\ UNCHANGED exceptDigest

DigestNext == generateDigest

DigestIdle ==
  /\ ftTweets = <<>>
  /\ bmEntries = <<>>
  /\ digestJson = <<>>
  /\ digestDone = FALSE

\* ---------------------------------------- an account that posts a lot
\* the sync of an account that posts more between two runs than one page of
\* GET /users/:id/tweets holds

MaxBurst == 12

\* account 1 posts, a second after its last post, a post of its own
PostBurst ==
  /\ Len(remote) < MaxBurst
  /\ LET id == Len(remote) + 1
     IN  remote' = Append(remote, [author |-> 1, created_at |-> id,
                                    conversation_id |-> id])
  /\ UNCHANGED <<tracked, sinceIdsFile, snapshotFile, pc, idx, sinceIds,
                 existingData, errors, outcome, fetched>>
  /\ UNCHANGED exceptSync

BurstNext ==
  \/ PostBurst
  \/ StartRun
  \/ FetchOk
  \/ FinishRun
  \/ NotionSync

\* ------------------------------------------ the incremental bookmark sync
\* sync-bookmarks-incremental.ts syncBookmarksIncremental

MaxIncIds == 3

\* max_results of the bookmarks request, scaled down from 100
BookmarkPageSize == 2

\* tweets 1 and 2 are one conversation, the others another one; a tweet with
\* a greater id was posted later
BmTweet(id) ==
  [id |-> id, created_at |-> id,
   conversation_id |-> IF id <= 2 THEN 1 ELSE 3, thread_position |-> 0]

NoRun == [ran |-> FALSE, last_id |-> 0, new |-> <<>>, pages |-> 0]

IncInit ==
  /\ bmFeed = <<>>
  /\ stateLastId = 0
  /\ incDaily = <<>>
  /\ incLatest = <<>>
  /\ incRun = NoRun

IncIdle ==
  /\ bmFeed = <<>>
  /\ stateLastId = 0
  /\ incDaily = <<>>
  /\ incLatest = <<>>
  /\ incRun = NoRun

\* the user bookmarks a tweet: the endpoint lists it first
IncBookmark(id) ==
  /\ id \notin SeqIds(bmFeed)
  /\ bmFeed' = <<id>> \o bmFeed
  /\ incRun' = NoRun
  /\ UNCHANGED <<stateLastId, incDaily, incLatest>>
  /\ UNCHANGED exceptInc

\* the user removes a bookmark
IncUnbookmark(id) ==
  /\ id \in SeqIds(bmFeed)
  /\ bmFeed' = Without(bmFeed, id)
  /\ incRun' = NoRun
  /\ UNCHANGED <<stateLastId, incDaily, incLatest>>
  /\ UNCHANGED exceptInc

\* a scan that never recognises the known id
StopsAtNever(lastId, id) == FALSE

\* line 81: state.last_id && t.id === state.last_id
StopsAt(lastId, id) == lastId # 0 /\ id = lastId

\* lines 56-97, from page p on: request the page; an empty page ends the
\* loop; the items before the known id are new; a known id or a response
\* without next_token ends the loop
RECURSIVE ScanPages(_, _, _, _)
ScanPages(feed, lastId, p, newBookmarks) ==
  LET from == (p - 1) * BookmarkPageSize + 1
      to == IF p * BookmarkPageSize < Len(feed) THEN p * BookmarkPageSize
            ELSE Len(feed)
      tweets == SubSeq(feed, from, to)
      known == {k \in 1..Len(tweets) : StopsAt(lastId, tweets[k])}
      nextToken == p * BookmarkPageSize < Len(feed)
  IN  IF tweets = <<>>
      THEN [new |-> newBookmarks, pages |-> p]
      ELSE IF known # {}
      THEN [new |-> newBookmarks \o
                      SubSeq(tweets, 1, (CHOOSE k \in known :
                                           \A j \in known : k <= j) - 1),
            pages |-> p]
      ELSE IF nextToken
      THEN ScanPages(feed, lastId, p + 1, newBookmarks \o tweets)
      ELSE [new |-> newBookmarks \o tweets, pages |-> p]

\* the classified bookmarks of a run, from their ids
Classified3(ids) == [i \in 1..Len(ids) |-> BmTweet(ids[i])]

\* an array with every element worked out (the same sequence)
AsArray(tweets) == SubSeq(tweets, 1, Len(tweets))

\* lines 136-141: Map by id, existing first, sort newest first, positions
MergeBookmarksDaily(existingDaily, classifiedBookmarks) ==
  AsArray(assignThreadPositions(
            AsArray(MergeSorted(existingDaily, classifiedBookmarks))))

\* lines 166-171: Map by id, existing first, sort newest first; the new
\* bookmarks are the objects assignThreadPositions has just written to
MergeBookmarksLatest(allBookmarks, classifiedBookmarks, mergedBookmarks) ==
  LET positioned ==
        [i \in 1..Len(classifiedBookmarks) |->
           LET k == CHOOSE j \in 1..Len(mergedBookmarks) :
                      mergedBookmarks[j].id = classifiedBookmarks[i].id
           IN  mergedBookmarks[k]]
  IN  AsArray(MergeSorted(allBookmarks, AsArray(positioned)))

\* lines 27-206, one run
syncBookmarksIncremental ==
  LET scan == ScanPages(bmFeed, stateLastId, 1, <<>>)
      classifiedBookmarks == Classified3(scan.new)
      mergedBookmarks == MergeBookmarksDaily(incDaily, classifiedBookmarks)
  IN  /\ incRun' = [ran |-> TRUE, last_id |-> stateLastId,
                    new |-> scan.new, pages |-> scan.pages]
      /\ IF scan.new = <<>>
         THEN UNCHANGED <<stateLastId, incDaily, incLatest>>
         ELSE /\ stateLastId' = classifiedBookmarks[1].id
              /\ incDaily' = mergedBookmarks
              /\ incLatest' = MergeBookmarksLatest(incLatest, classifiedBookmarks,
                                                    mergedBookmarks)
      /\ UNCHANGED bmFeed
      /\ UNCHANGED exceptInc

\* today() changes: the daily file of the new day does not exist yet
IncNewDay ==
  /\ incDaily # <<>>
  /\ incDaily' = <<>>
  /\ incRun' = NoRun
  /\ UNCHANGED <<bmFeed, stateLastId, incLatest>>
  /\ UNCHANGED exceptInc

IncNext ==
  \/ \E id \in 1..MaxIncIds : IncBookmark(id)
  \/ \E id \in 1..MaxIncIds : IncUnbookmark(id)
  \/ syncBookmarksIncremental
  \/ IncNewDay

\* ------------------------------------------- assignThreadPositions alone
\* tweet-utils.ts assignThreadPositions, called over and over on one array

MaxThreadLen == 3
MaxThreadCalls == 2

\* created_at 0: the field is missing (?? "" sorts before every date);
\* conversation_id 0: the field is missing (the tweet is skipped)
ThreadTimes == {0, 1, 2}
ThreadConversations == {0, 1, 2}
StoredPositions == {0, 2}

\* the array of n tweets with the fields f gives them
ThreadArray(n, f) ==
  [i \in 1..n |->
     [id |-> i, created_at |-> f[i][1], conversation_id |-> f[i][2],
      thread_position |-> f[i][3]]]

ThrIdle ==
  /\ thrTweets = <<>>
  /\ thrBefore = <<>>
  /\ thrCalls = 0

ThrInit ==
  /\ \E n \in 0..MaxThreadLen :
       \E f \in [1..n -> ThreadTimes \X ThreadConversations \X StoredPositions] :
         thrTweets = ThreadArray(n, f)
  /\ thrBefore = <<>>
  /\ thrCalls = 0

CallAssignThreadPositions ==
  /\ thrCalls < MaxThreadCalls
  /\ thrTweets' = assignThreadPositions(thrTweets)
  /\ thrBefore' = thrTweets
  /\ thrCalls' = thrCalls + 1
  /\ UNCHANGED exceptThr

ThrNext == CallAssignThreadPositions

\* ----------------------------------------------- the two merges by id
\* api.ts mergeIntoAll and fetch-following-tweets.ts 121-131, fed with
\* batches that repeat archived tweets with newer metrics

MaxMergeIds == 3
\* like counts a fetch can report for a tweet
MetricsValues == {0, 1}

\* a fetched tweet: id, created_at and conversation never change, the
\* metrics are those of the moment of the fetch
FetchedTweet(id, metrics) ==
  [created_at |-> id, id |-> id,
   conversation_id |-> IF id <= 2 THEN 1 ELSE 3, thread_position |-> 0,
   metrics |-> metrics]

\* a response: the tweets of ids, newest first, with the metrics of the
\* moment of the fetch
RECURSIVE Response(_, _)
Response(ids, metrics) ==
  IF ids = {} THEN <<>>
  ELSE LET id == MaxOf(ids)
       IN  <<FetchedTweet(id, metrics)>> \o Response(ids \ {id}, metrics)

MrgIdle ==
  /\ mrgFile = "all"
  /\ mrgArchive = <<>>
  /\ mrgLast = [merged |-> FALSE, before |-> <<>>, batch |-> <<>>]

MrgInit ==
  /\ mrgFile \in {"all", "daily"}
  /\ mrgArchive = <<>>
  /\ mrgLast = [merged |-> FALSE, before |-> <<>>, batch |-> <<>>]

\* api.ts 347-377
mergeIntoAll(newTweets) ==
  /\ mrgFile = "all"
  /\ mrgArchive' = MergeSorted(mrgArchive, newTweets)
  /\ mrgLast' = [merged |-> TRUE, before |-> mrgArchive, batch |-> newTweets]
  /\ UNCHANGED mrgFile
  /\ UNCHANGED exceptMrg

\* fetch-following-tweets.ts 121-131
MergeIntoDaily(classifiedFetched) ==
  /\ mrgFile = "daily"
  /\ mrgArchive' = MergeDaily(mrgArchive, classifiedFetched)
  /\ mrgLast' = [merged |-> TRUE, before |-> mrgArchive, batch |-> classifiedFetched]
  /\ UNCHANGED mrgFile
  /\ UNCHANGED exceptMrg

MrgNext ==
  \E ids \in SUBSET (1..MaxMergeIds) : \E m \in MetricsValues :
    \/ mergeIntoAll(Response(ids, m))
    \/ MergeIntoDaily(Response(ids, m))

\* ---------------------------------------------------------- fetchAllPages
\* api.ts fetchAllPages, one loop iteration per step

MaxFetchPages == 3

\* items a page can hold (0: no data field, or an empty one)
PageSizes == {0, 1, 2}

\* values of meta.next_token
PageTokens == {1, 2}

IncludeKeys == {"users", "media"}

\* what the endpoint can answer to request number p: a page of
\* items, included objects under none, one or both keys, and next_token
\* (0: none); the list ends with page MaxFetchPages at the latest
PageResponses(p) ==
  {[data |-> [i \in 1..n |-> [page |-> p, item |-> i]],
    includes |-> [k \in IncludeKeys |->
                    IF k \in keys THEN <<[key |-> k, page |-> p]>> ELSE <<>>],
    next_token |-> t] :
     n \in PageSizes, keys \in SUBSET IncludeKeys,
     t \in IF p < MaxFetchPages THEN PageTokens \cup {0} ELSE {0}}

FapIdle ==
  /\ fapPc = "idle"
  /\ allData = <<>>
  /\ allIncludes = [k \in IncludeKeys |-> <<>>]
  /\ paginationToken = 0
  /\ fapRequests = <<>>
  /\ fapResponses = <<>>

FapInit ==
  /\ fapPc = "idle"
  /\ allData = <<>>
  /\ allIncludes = [k \in IncludeKeys |-> <<>>]
  /\ paginationToken = 0
  /\ fapRequests = <<>>
  /\ fapResponses = <<>>

\* lines 110-113
FapCall ==
  /\ fapPc \in {"idle", "returned", "failed"}
  /\ fapPc' = "loop"
  /\ allData' = <<>>
  /\ allIncludes' = [k \in IncludeKeys |-> <<>>]
  /\ paginationToken' = 0
  /\ fapRequests' = <<>>
  /\ fapResponses' = <<>>
  /\ UNCHANGED exceptFap

\* only the page just received is kept
PushDataLastPage(data, json) == json.data

\* lines 125-127: allData.push(...json.data); a response without data or
\* with an empty array adds nothing
PushData(data, json) == data \o json.data

\* lines 130-135: allIncludes[key].push(...items) for every key of the page
PushIncludes(includes, json) ==
  [k \in IncludeKeys |-> includes[k] \o json.includes[k]]

\* lines 115-139: one iteration, apiGet answered
FapPage(json) ==
  /\ fapPc = "loop"
  /\ fapRequests' = Append(fapRequests, paginationToken)
  /\ fapResponses' = Append(fapResponses, json)
  /\ allData' = PushData(allData, json)
  /\ allIncludes' = PushIncludes(allIncludes, json)
  /\ paginationToken' = json.next_token
  /\ fapPc' = IF json.next_token # 0 THEN "loop" ELSE "returned"
  /\ UNCHANGED exceptFap

\* line 123: apiGet throws, and so does fetchAllPages
FapThrow ==
  /\ fapPc = "loop"
  /\ fapRequests' = Append(fapRequests, paginationToken)
  /\ fapPc' = "failed"
  /\ UNCHANGED <<allData, allIncludes, paginationToken, fapResponses>>
  /\ UNCHANGED exceptFap

FapNext ==
  \/ FapCall
  \/ \E json \in PageResponses(Len(fapResponses) + 1) : FapPage(json)
  \/ FapThrow

\* ------------------------------------------------------ the rate-limit wait
\* api.ts 73-79: the wait of apiGet after a 429. A JavaScript number is
\* NaN or a value; the header is missing, a string of digits (epoch
\* seconds) or a text that is not a number (an HTTP date, for instance)
MinWaitMs == 1000
MaxWaitMs == 900000
MaxResetSeconds == 1000

NaN == [nan |-> TRUE, v |-> 0]

Num(v) == [nan |-> FALSE, v |-> v]

ResetHeaders ==
  {[kind |-> "missing", v |-> 0], [kind |-> "text", v |-> 0]}
    \cup {[kind |-> "digits", v |-> v] : v \in 0..MaxResetSeconds}

DateNows == {0, 500, 50000, 100000}

\* Number(resp.headers.get(...)): Number(null) is 0, Number of a text NaN
NumberOf(h) ==
  IF h.kind = "missing" THEN Num(0)
  ELSE IF h.kind = "digits" THEN Num(h.v)
  ELSE NaN

\* x * n, x - n, Math.max(x, n), Math.min(x, n): NaN when x is NaN
Times(x, n) == IF x.nan THEN NaN ELSE Num(x.v * n)

Minus(x, n) == IF x.nan THEN NaN ELSE Num(x.v - n)

MathMax(x, n) == IF x.nan THEN NaN ELSE IF x.v > n THEN x ELSE Num(n)

MathMin(x, n) == IF x.nan THEN NaN ELSE IF x.v < n THEN x ELSE Num(n)

\* resetAt and waitMs of lines 74-75
WaitMs(header, nowMs) ==
  LET resetAt == Times(NumberOf(header), 1000)
  IN  MathMin(MathMax(Minus(resetAt, nowMs), MinWaitMs), MaxWaitMs)

WaitIdle ==
  /\ rateLimitReset = [kind |-> "missing", v |-> 0]
  /\ dateNow = 0
  /\ waitMs = Num(0)
  /\ wpc = "received"

WaitInit ==
  /\ rateLimitReset \in ResetHeaders
  /\ dateNow \in DateNows
  /\ waitMs = Num(0)
  /\ wpc = "received"

\* lines 74-77, up to the call of Bun.sleep(waitMs)
ComputeWait ==
  /\ wpc = "received"
  /\ waitMs' = WaitMs(rateLimitReset, dateNow)
  /\ wpc' = "sleep"
  /\ UNCHANGED <<rateLimitReset, dateNow>>
  /\ UNCHANGED exceptWait

WaitNext == ComputeWait

\* ---------------------------------------------- the three syncs side by side
\* fetchMyTweets (my-tweets/), syncBookmarksIncremental (bookmarks/) and
\* fetchFollowingTweets (following-tweets/) as scripts that run at the same
\* time: what each reads and writes, file by file, and config.json, which
\* all of them load and, after a token refresh, save
Feeds == {"own", "bookmarks", "following"}

\* the feeds with a cursor file of their own: bookmarks/state.json and
\* following-tweets/since_ids.json (the own feed takes since_id from all.json)
CursorFeeds == {"bookmarks", "following"}

MaxFeedItems == 2

Newest(ids) == IF ids = {} THEN 0 ELSE CHOOSE i \in ids : \A j \in ids : j <= i

StoredConfig(token, due) == [refresh_token |-> token, due |-> due]

FeedIdle ==
  /\ feedRemote = [f \in Feeds |-> {}]
  /\ feedArchive = [f \in Feeds |-> {}]
  /\ feedCursor = [f \in CursorFeeds |-> 0]
  /\ feedPc = [f \in Feeds |-> "idle"]
  /\ feedConfig = [f \in Feeds |-> StoredConfig(0, FALSE)]
  /\ sharedConfig = StoredConfig(1, FALSE)
  /\ endpointToken = 1

\* the token in config.json is due for a refresh or not; every feed has
\* something new or nothing
FeedInit ==
  /\ feedRemote \in [Feeds -> {{}, 1..MaxFeedItems}]
  /\ feedArchive = [f \in Feeds |-> {}]
  /\ feedCursor = [f \in CursorFeeds |-> 0]
  /\ feedPc = [f \in Feeds |-> "idle"]
  /\ feedConfig = [f \in Feeds |-> StoredConfig(0, FALSE)]
  /\ \E due \in BOOLEAN : sharedConfig = StoredConfig(1, due)
  /\ endpointToken = 1

\* the script of feed f starts: loadConfig() of its first API call
FeedLoadConfig(f) ==
  /\ feedPc[f] = "idle"
  /\ feedConfig' = [feedConfig EXCEPT ![f] = sharedConfig]
  /\ feedPc' = [feedPc EXCEPT ![f] = "ensure"]
  /\ UNCHANGED <<feedRemote, feedArchive, feedCursor, sharedConfig, endpointToken>>
  /\ UNCHANGED exceptFeed

\* a script that starts when no other script is running
FeedLoadConfigAlone(f) ==
  /\ \A g \in Feeds : feedPc[g] \in {"idle", "done", "failed"}
  /\ FeedLoadConfig(f)

\* ensureValidToken, the token is not due: on to the request
FeedTokenValid(f) ==
  /\ feedPc[f] = "ensure"
  /\ ~feedConfig[f].due
  /\ feedPc' = [feedPc EXCEPT ![f] = "fetch"]
  /\ UNCHANGED <<feedRemote, feedArchive, feedCursor, feedConfig, sharedConfig,
                 endpointToken>>
  /\ UNCHANGED exceptFeed

\* ensureValidToken -> refreshToken with the refresh token the script
\* loaded; the endpoint accepts the token it holds valid and rotates it
FeedRefreshOk(f) ==
  /\ feedPc[f] = "ensure"
  /\ feedConfig[f].due
  /\ feedConfig[f].refresh_token = endpointToken
  /\ endpointToken' = endpointToken + 1
  /\ feedConfig' = [feedConfig EXCEPT ![f] = StoredConfig(endpointToken + 1, FALSE)]
  /\ feedPc' = [feedPc EXCEPT ![f] = "save"]
  /\ UNCHANGED <<feedRemote, feedArchive, feedCursor, sharedConfig>>
  /\ UNCHANGED exceptFeed

\* refreshToken with a refresh token that is spent: "Token refresh failed" is
\* thrown out of apiGet; the script ends (own, bookmarks) or counts an error
\* for every account (following) and has nothing new to write
FeedRefreshRejected(f) ==
  /\ feedPc[f] = "ensure"
  /\ feedConfig[f].due
  /\ feedConfig[f].refresh_token # endpointToken
  /\ feedPc' = [feedPc EXCEPT ![f] = "failed"]
  /\ UNCHANGED <<feedRemote, feedArchive, feedCursor, feedConfig, sharedConfig,
                 endpointToken>>
  /\ UNCHANGED exceptFeed

\* refreshToken: saveConfig(config)
FeedSaveConfig(f) ==
  /\ feedPc[f] = "save"
  /\ sharedConfig' = feedConfig[f]
  /\ feedPc' = [feedPc EXCEPT ![f] = "fetch"]
  /\ UNCHANGED <<feedRemote, feedArchive, feedCursor, feedConfig, endpointToken>>
  /\ UNCHANGED exceptFeed

\* the items are fetched and merged into the archive files of the feed:
\* my-tweets/all.json and the dated file, bookmarks/<date>.json and
\* latest.json, following-tweets/<date>.json
FeedWriteArchive(f) ==
  /\ feedPc[f] = "fetch"
  /\ feedArchive' = [feedArchive EXCEPT ![f] = @ \cup feedRemote[f]]
  /\ feedPc' = [feedPc EXCEPT ![f] = IF f \in CursorFeeds THEN "cursor" ELSE "done"]
  /\ UNCHANGED <<feedRemote, feedCursor, feedConfig, sharedConfig, endpointToken>>
  /\ UNCHANGED exceptFeed

\* bookmarks/state.json, following-tweets/since_ids.json
FeedWriteCursor(f) ==
  /\ feedPc[f] = "cursor"
  /\ feedCursor' = [feedCursor EXCEPT ![f] = Newest(feedArchive[f])]
  /\ feedPc' = [feedPc EXCEPT ![f] = "done"]
  /\ UNCHANGED <<feedRemote, feedArchive, feedConfig, sharedConfig, endpointToken>>
  /\ UNCHANGED exceptFeed

FeedStep(f) ==
  \/ FeedTokenValid(f)
  \/ FeedRefreshOk(f)
  \/ FeedRefreshRejected(f)
  \/ FeedSaveConfig(f)
  \/ FeedWriteArchive(f)
  \/ FeedWriteCursor(f)

\* the scripts started at any time
FeedNext ==
  \/ \E f \in Feeds : FeedLoadConfig(f)
  \/ \E f \in Feeds : FeedStep(f)

\* the scripts run one after the other
FeedNextSequential ==
  \/ \E f \in Feeds : FeedLoadConfigAlone(f)
  \/ \E f \in Feeds : FeedStep(f)

\* ------------------------------------------- forwarding to the record store
\* one feed across runs of fetchFollowingTweets or syncBookmarksIncremental:
\* what a run fetches, archives and hands to syncTweetsToNotion or
\* syncBookmarksToNotion, and what the push creates
MaxFeedIds == 5

FwIdle ==
  /\ fwFeed = 0
  /\ fwCursor = 0
  /\ fwArchive = {}
  /\ fwBatch = {}
  /\ fwStore = {}
  /\ fwPc = "idle"

FwInit == FwIdle

\* an item appears in the feed
FwPost ==
  /\ fwFeed < MaxFeedIds
  /\ fwFeed' = fwFeed + 1
  /\ UNCHANGED <<fwCursor, fwArchive, fwBatch, fwStore, fwPc>>
  /\ UNCHANGED exceptFw

\* a run up to the push: the items after the cursor are fetched, merged into
\* the archive, the cursor is written, and the fetched items - nothing else -
\* are handed to the push; a run that fetched nothing does not push
FwRun ==
  /\ fwPc = "idle"
  /\ LET newItems == (fwCursor + 1)..fwFeed
     IN  /\ fwArchive' = fwArchive \cup newItems
         /\ fwCursor' = fwFeed
         /\ fwBatch' = newItems
         /\ fwPc' = IF newItems = {} THEN "idle" ELSE "push"
  /\ UNCHANGED <<fwFeed, fwStore>>
  /\ UNCHANGED exceptFw

\* the push: the ids without a page are created one by one, createPage
\* returning false for those the record store rejects
FwPush(made) ==
  /\ fwPc = "push"
  /\ made \subseteq fwBatch \ fwStore
  /\ fwStore' = fwStore \cup made
  /\ fwBatch' = {}
  /\ fwPc' = "idle"
  /\ UNCHANGED <<fwFeed, fwCursor, fwArchive>>
  /\ UNCHANGED exceptFw

\* a push in which every page is created
FwPushOk == FwPush(fwBatch \ fwStore)

\* the push throws (the existence query or a request fails): the error is
\* logged and the run ends
FwPushThrows ==
  /\ fwPc = "push"
  /\ fwBatch' = {}
  /\ fwPc' = "idle"
  /\ UNCHANGED <<fwFeed, fwCursor, fwArchive, fwStore>>
  /\ UNCHANGED exceptFw

FwNext ==
  \/ FwPost
  \/ FwRun
  \/ \E made \in SUBSET (1..MaxFeedIds) : FwPush(made)
  \/ FwPushThrows

\* --------------------------------------------------------- specifications
vars == <<syncVars, clsVars, apiVars, credVars, ownVars, bmVars, notionVars,
          followVars, digestVars, incVars, thrVars, mrgVars, fapVars,
          waitVars, feedVars, fwVars>>

FollowIdle ==
  /\ following = {}
  /\ latestUsers = {}
  /\ filtered = {}
  /\ pending = {}
  /\ manualInclude = {}
  /\ manualExclude = {}
  /\ lastOp = "none"
  /\ syncReport = [removable |-> {}, protected_ |-> {}]

NotionIdle ==
  /\ notionPages = [k \in PageKeys |-> 0]
  /\ pushResult = [type |-> "none", allExisted |-> FALSE, created |-> 0]

BmIdle ==
  /\ bookmarked = <<>>
  /\ bmSnapshot = <<>>
  /\ bmLatest = <<>>
  /\ bmOlder = {}
  /\ bmFetched = {}

OwnIdle ==
  /\ myTimeline = <<>>
  /\ allFile = <<>>
  /\ xNow = 1
  /\ lag = 0

CredIdle ==
  /\ configFile = Credentials(1, ExpiresIn)
  /\ authValid = 1
  /\ epoch = 0
  /\ tpc = [p \in Procs |-> "idle"]
  /\ config = [p \in Procs |-> Credentials(0, 0)]
  /\ retAfter = [p \in Procs |-> "send"]
  /\ granted = [p \in Procs |-> 0]
  /\ exchanges = <<>>

ClsIdle ==
  /\ cParentAuthor = 1
  /\ cTweet = [author |-> 1, author_id |-> 1, replied_to |-> 0, quoted |-> 0,
               note_tweet |-> FALSE, in_reply_to_user_id |-> 0]
  /\ cTweetsMap = [id \in {RepliedToId, QuotedId} |->
                     [present |-> FALSE, author_id |-> 0, text |-> 0]]
  /\ cUsersMap = {}
  /\ cOut = [tweet_type |-> "none", original_tweet |-> NoOriginalTweet]

ApiIdle ==
  /\ method = "GET"
  /\ apc = "idle"
  /\ log = <<>>
  /\ result = "none"
  /\ now = 0
  /\ expiresAt = 0

Init ==
  /\ SyncInit
  /\ ClsIdle
  /\ ApiIdle
  /\ CredIdle
  /\ OwnIdle
  /\ BmIdle
  /\ NotionIdle
  /\ FollowIdle
  /\ DigestIdle
  /\ IncIdle
  /\ ThrIdle
  /\ MrgIdle
  /\ FapIdle
  /\ WaitIdle
  /\ FeedIdle
  /\ FwIdle

Next == SyncNext

\* the followed-accounts sync with the list commands
Spec == Init /\ [][Next]_vars

SyncIdle ==
  /\ remote = <<>>
  /\ tracked = {}
  /\ sinceIdsFile = [a \in Accounts |-> 0]
  /\ snapshotFile = NoTweets
  /\ pc = "idle"
  /\ idx = 0
  /\ sinceIds = [a \in Accounts |-> 0]
  /\ existingData = NoTweets
  /\ errors = 0
  /\ outcome = [a \in Accounts |-> "none"]
  /\ fetched = [a \in Accounts |-> {}]

InitApi ==
  /\ SyncIdle
  /\ ClsIdle
  /\ ApiInit
  /\ CredIdle
  /\ OwnIdle
  /\ BmIdle
  /\ NotionIdle
  /\ FollowIdle
  /\ DigestIdle
  /\ IncIdle
  /\ ThrIdle
  /\ MrgIdle
  /\ FapIdle
  /\ WaitIdle
  /\ FeedIdle
  /\ FwIdle

\* the transport under every sequence of server answers
SpecApi == InitApi /\ [][ApiNext]_vars

InitClassify ==
  /\ SyncIdle
  /\ ClassifyInit
  /\ ApiIdle
  /\ CredIdle
  /\ OwnIdle
  /\ BmIdle
  /\ NotionIdle
  /\ FollowIdle
  /\ DigestIdle
  /\ IncIdle
  /\ ThrIdle
  /\ MrgIdle
  /\ FapIdle
  /\ WaitIdle
  /\ FeedIdle
  /\ FwIdle

\* the classifier applied to every input the endpoints can produce
SpecClassify == InitClassify /\ [][ClassifyNext]_vars

InitCred ==
  /\ SyncIdle
  /\ ClsIdle
  /\ ApiIdle
  /\ CredInit
  /\ OwnIdle
  /\ BmIdle
  /\ NotionIdle
  /\ FollowIdle
  /\ DigestIdle
  /\ IncIdle
  /\ ThrIdle
  /\ MrgIdle
  /\ FapIdle
  /\ WaitIdle
  /\ FeedIdle
  /\ FwIdle

\* the credentials under calls made one after the other
SpecCred == InitCred /\ [][CredNextSequential]_vars

\* the credentials under calls of scripts running at the same time
SpecCredConcurrent == InitCred /\ [][CredNextConcurrent]_vars

InitOwn ==
  /\ SyncIdle
  /\ ClsIdle
  /\ ApiIdle
  /\ CredIdle
  /\ OwnInit
  /\ BmIdle
  /\ NotionIdle
  /\ FollowIdle
  /\ DigestIdle
  /\ IncIdle
  /\ ThrIdle
  /\ MrgIdle
  /\ FapIdle
  /\ WaitIdle
  /\ FeedIdle
  /\ FwIdle

\* the own-items archive under syncs and posts
SpecOwn == InitOwn /\ [][OwnNext]_vars

\* the followed-accounts sync with the list commands, when a process may die
\* between its file writes
SpecCrash == Init /\ [][CrashNext]_vars

InitBm ==
  /\ SyncIdle
  /\ ClsIdle
  /\ ApiIdle
  /\ CredIdle
  /\ OwnIdle
  /\ BmInit
  /\ NotionIdle
  /\ FollowIdle
  /\ DigestIdle
  /\ IncIdle
  /\ ThrIdle
  /\ MrgIdle
  /\ FapIdle
  /\ WaitIdle
  /\ FeedIdle
  /\ FwIdle

\* the bookmark files under full syncs and changes of the bookmark list
SpecBm == InitBm /\ [][BmNext]_vars

InitNotion ==
  /\ SyncIdle
  /\ ClsIdle
  /\ ApiIdle
  /\ CredIdle
  /\ OwnIdle
  /\ BmIdle
  /\ NotionInit
  /\ FollowIdle
  /\ DigestIdle
  /\ IncIdle
  /\ ThrIdle
  /\ MrgIdle
  /\ FapIdle
  /\ WaitIdle
  /\ FeedIdle
  /\ FwIdle

\* the record store under every sequence of pushes
SpecNotion == InitNotion /\ [][NotionNext]_vars

InitFollow ==
  /\ SyncIdle
  /\ ClsIdle
  /\ ApiIdle
  /\ CredIdle
  /\ OwnIdle
  /\ BmIdle
  /\ NotionIdle
  /\ FollowInit
  /\ DigestIdle
  /\ IncIdle
  /\ ThrIdle
  /\ MrgIdle
  /\ FapIdle
  /\ WaitIdle
  /\ FeedIdle
  /\ FwIdle

\* the list files under follows, syncs and commands
SpecFollow == InitFollow /\ [][FollowNext]_vars

InitDigest ==
  /\ SyncIdle
  /\ ClsIdle
  /\ ApiIdle
  /\ CredIdle
  /\ OwnIdle
  /\ BmIdle
  /\ NotionIdle
  /\ FollowIdle
  /\ DigestInit
  /\ IncIdle
  /\ ThrIdle
  /\ MrgIdle
  /\ FapIdle
  /\ WaitIdle
  /\ FeedIdle
  /\ FwIdle

\* the digest of every pair of daily files
SpecDigest == InitDigest /\ [][DigestNext]_vars

\* the followed-accounts sync of an account that posts a lot
SpecBurst == Init /\ [][BurstNext]_vars

InitInc ==
  /\ SyncIdle
  /\ ClsIdle
  /\ ApiIdle
  /\ CredIdle
  /\ OwnIdle
  /\ BmIdle
  /\ NotionIdle
  /\ FollowIdle
  /\ DigestIdle
  /\ IncInit
  /\ ThrIdle
  /\ MrgIdle
  /\ FapIdle
  /\ WaitIdle
  /\ FeedIdle
  /\ FwIdle

\* the bookmark files under incremental syncs
SpecInc == InitInc /\ [][IncNext]_vars

InitThr ==
  /\ SyncIdle
  /\ ClsIdle
  /\ ApiIdle
  /\ CredIdle
  /\ OwnIdle
  /\ BmIdle
  /\ NotionIdle
  /\ FollowIdle
  /\ DigestIdle
  /\ IncIdle
  /\ ThrInit
  /\ MrgIdle
  /\ FapIdle
  /\ WaitIdle
  /\ FeedIdle
  /\ FwIdle

\* assignThreadPositions on every small array
SpecThr == InitThr /\ [][ThrNext]_vars

InitMrg ==
  /\ SyncIdle
  /\ ClsIdle
  /\ ApiIdle
  /\ CredIdle
  /\ OwnIdle
  /\ BmIdle
  /\ NotionIdle
  /\ FollowIdle
  /\ DigestIdle
  /\ IncIdle
  /\ ThrIdle
  /\ MrgInit
  /\ FapIdle
  /\ WaitIdle
  /\ FeedIdle
  /\ FwIdle

\* the merges by id alone
SpecMrg == InitMrg /\ [][MrgNext]_vars

InitFap ==
  /\ SyncIdle
  /\ ClsIdle
  /\ ApiIdle
  /\ CredIdle
  /\ OwnIdle
  /\ BmIdle
  /\ NotionIdle
  /\ FollowIdle
  /\ DigestIdle
  /\ IncIdle
  /\ ThrIdle
  /\ MrgIdle
  /\ FapInit
  /\ WaitIdle
  /\ FeedIdle
  /\ FwIdle

\* fetchAllPages against every small paged list
SpecFap == InitFap /\ [][FapNext]_vars

\* the followed-accounts sync, the list commands and the rebuild
SpecRebuild == Init /\ [][RebuildNext]_vars

\* the steps of a call in progress: every await of apiGet and apiPost
\* settles, the two data requests within their 30 s AbortSignal, Bun.sleep
\* after at most 900 s, the token exchange by an answer or a rejection
ApiStep ==
  \/ EnsureFresh
  \/ EnsureRefreshOk
  \/ EnsureRefreshFail
  \/ Send
  \/ \E status \in Statuses : Receive(status)
  \/ FetchThrows
  \/ Sleep
  \/ Refresh401Ok
  \/ Refresh401Fail
  \/ RetrySend
  \/ \E status \in Statuses : RetryReceive(status)

\* the transport with a call in progress always going on; the server
\* answers a call 429 at most Max429 times
SpecApiFair == InitApi /\ [][ApiNext]_vars /\ WF_vars(ApiStep)

InitWait ==
  /\ SyncIdle
  /\ ClsIdle
  /\ ApiIdle
  /\ CredIdle
  /\ OwnIdle
  /\ BmIdle
  /\ NotionIdle
  /\ FollowIdle
  /\ DigestIdle
  /\ IncIdle
  /\ ThrIdle
  /\ MrgIdle
  /\ FapIdle
  /\ WaitInit
  /\ FeedIdle
  /\ FwIdle

SpecWait == InitWait /\ [][WaitNext]_vars

InitFeed ==
  /\ SyncIdle
  /\ ClsIdle
  /\ ApiIdle
  /\ CredIdle
  /\ OwnIdle
  /\ BmIdle
  /\ NotionIdle
  /\ FollowIdle
  /\ DigestIdle
  /\ IncIdle
  /\ ThrIdle
  /\ MrgIdle
  /\ FapIdle
  /\ WaitIdle
  /\ FeedInit
  /\ FwIdle

SpecFeed == InitFeed /\ [][FeedNext]_vars

SpecFeedSequential == InitFeed /\ [][FeedNextSequential]_vars

\* the following list with commands that may end part-way
SpecFollowCrash == InitFollow /\ [][FollowCrashNext]_vars

InitFw ==
  /\ SyncIdle
  /\ ClsIdle
  /\ ApiIdle
  /\ CredIdle
  /\ OwnIdle
  /\ BmIdle
  /\ NotionIdle
  /\ FollowIdle
  /\ DigestIdle
  /\ IncIdle
  /\ ThrIdle
  /\ MrgIdle
  /\ FapIdle
  /\ WaitIdle
  /\ FeedIdle
  /\ FwInit

SpecFw == InitFw /\ [][FwNext]_vars

\* the sync is run again and again, every push that has been started ends,
\* and pushes succeed in the end: of the pushes attempted again and again
\* one creates all its pages
SpecFwFair ==
  /\ InitFw
  /\ [][FwNext]_vars
  /\ WF_vars(FwRun)
  /\ WF_vars(FwPushThrows \/ \E made \in SUBSET (1..MaxFeedIds) : FwPush(made))
  /\ SF_vars(FwPushOk)

\* ======================================================= claims, sync model
IdsOf(tweets) == {tweets[i].id : i \in 1..Len(tweets)}

\* C1 - Idempotent merge: whenever a sync or an add can start, for the
\* archive A it would load (every archive the program has written) and every
\* batch B the timeline endpoint can return, merging B into the result of
\* merging B into A changes nothing: same ids, same items, same order, same
\* thread positions (for the daily merge with positions and for the plain
\* id-keyed merge of mergeIntoAll).
IdempotentMerge ==
  pc = "idle" =>
    \A a \in Accounts :
      \A B \in {TimelinePage(a, s, MaxPerUser) : s \in 0..MaxTweets} :
        LET A == snapshotFile[a]
            daily == MergeDaily(A, B)
            plain == MergeSorted(A, B)
        IN  /\ MergeDaily(daily, B) = daily
            /\ MergeSorted(plain, B) = plain

\* an archive written by a sync and a batch that overlaps it and adds to it,
\* the merge of the two holding a thread
IdempotentMergeWitness ==
  /\ pc = "idle"
  /\ \E a \in Accounts : \E s \in 0..MaxTweets :
       LET A == snapshotFile[a]
           B == TimelinePage(a, s, MaxPerUser)
       IN  /\ IdsOf(A) \cap IdsOf(B) # {}
           /\ IdsOf(B) \ IdsOf(A) # {}
           /\ \E i \in 1..Len(MergeDaily(A, B)) :
                MergeDaily(A, B)[i].thread_position > 1

\* C2 - Monotonic cursor: no step of a sync run or of a manual add moves the
\* persisted cursor of an account backward.
MonotonicCursor ==
  [][\A a \in Accounts : sinceIdsFile'[a] >= sinceIdsFile[a]]_vars

\* a run has persisted the cursors, one of them kept because the fetch of an
\* account that already had a cursor returned nothing, one of them moved
MonotonicCursorWitness ==
  /\ pc = "notion"
  /\ \E a \in Accounts :
       outcome[a] = "ok" /\ fetched[a] = {} /\ sinceIdsFile[a] > 0
  /\ \E a \in Accounts :
       outcome[a] = "ok" /\ fetched[a] # {} /\ sinceIdsFile[a] = MaxOf(fetched[a])

\* C3 - After a successful sync of an account, its stored cursor is the
\* maximum item id among the items merged for that account.
CursorIsMaxMergedId ==
  pc = "notion" =>
    \A a \in tracked :
      (outcome[a] = "ok" /\ existingData[a] # <<>>) =>
        sinceIdsFile[a] = MaxOf(IdsOf(existingData[a]))

\* C7 - Thread-position correctness: in every set of items the position pass
\* has run over, a conversation shared by n >= 2 items carries exactly the
\* positions 1..n in ascending created_at order, and an item alone in its
\* conversation carries none.
ThreadPositionsOk(tweets) ==
  \A i \in 1..Len(tweets) :
    LET G == {j \in 1..Len(tweets) :
                tweets[j].conversation_id = tweets[i].conversation_id}
    IN  IF tweets[i].conversation_id # 0 /\ Cardinality(G) >= 2
        THEN /\ {tweets[j].thread_position : j \in G} = 1..Cardinality(G)
             /\ \A j, k \in G :
                  tweets[j].created_at < tweets[k].created_at
                    => tweets[j].thread_position < tweets[k].thread_position
        ELSE tweets[i].thread_position = 0

ThreadPositionCorrect ==
  \A a \in Accounts :
    /\ ThreadPositionsOk(snapshotFile[a])
    /\ outcome[a] = "ok" => ThreadPositionsOk(existingData[a])

\* a persisted archive holding a conversation of two items
ThreadPositionWitness ==
  \E a \in Accounts : \E i, j \in 1..Len(snapshotFile[a]) :
    /\ i # j
    /\ snapshotFile[a][i].conversation_id = snapshotFile[a][j].conversation_id

\* C8 - Partial-failure isolation: a run in which the fetch of exactly one
\* tracked account failed completes with errors = 1, and every other account
\* that fetched items has them in the persisted archive and its cursor
\* advanced.
PartialFailureIsolation ==
  [][(pc = "loop" /\ pc' = "notion"
       /\ Cardinality({a \in tracked : outcome[a] = "err"}) = 1
       /\ \A a \in tracked : outcome[a] # "auth")
     => /\ errors = 1
        /\ \A a \in tracked :
             (outcome[a] = "ok" /\ fetched[a] # {}) =>
               /\ fetched[a] \subseteq IdsOf(snapshotFile'[a])
               /\ sinceIdsFile'[a] > sinceIdsFile[a]]_vars

\* C11 - An authentication failure is fatal for the whole run: once the token
\* refresh of an account's fetch has failed, the failure is not counted as a
\* per-account error, no later account of the list is processed, and the run
\* does not go on to write its files.
AuthFailureFatal ==
  \A a \in Accounts :
    outcome[a] = "auth" =>
      /\ errors = Cardinality({b \in Accounts : outcome[b] = "err"})
      /\ \A b \in Accounts : b > a => outcome[b] = "none"
      /\ pc = "loop"

\* C15 - The items a sync forwards to the downstream push are exactly the
\* added items: ids of the fetched batch that the archive did not hold before
\* the merge (during the loop the archive file is still the one loaded).
ForwardsOnlyAdded ==
  pc = "loop" =>
    \A a \in Accounts :
      outcome[a] = "ok" =>
        ForwardedToNotion(a) = fetched[a] \ IdsOf(snapshotFile[a])

\* C17: a persisted cursor never runs ahead of the persisted archive: whenever
\* a step writes a new cursor for an account to since_ids.json, the item it
\* names is in the account's archive as persisted after that step, also when
\* the process dies between two file writes.
CursorWrittenAfterArchive ==
  [][\A a \in Accounts :
       sinceIdsFile'[a] # sinceIdsFile[a] =>
         sinceIdsFile'[a] \in IdsOf(snapshotFile'[a])]_vars

\* C23: a sync of an account with a stored cursor c brings everything newer
\* than c into the archive: after the account's fetch has succeeded, every
\* post of the account with an id above c that the platform holds is in the
\* account's merged tweets, however many there are.
SyncFetchesAllNewer ==
  [][(pc = "loop" /\ idx' = idx + 1 /\ outcome'[Users[idx]] = "ok"
        /\ sinceIds[Users[idx]] # 0) =>
       \A id \in (sinceIds[Users[idx]] + 1)..Len(remote) :
         remote[id].author = Users[idx] =>
           id \in IdsOf(existingData'[Users[idx]])]_vars

\* C30: no step deletes the cursor entry of an account, unless the step
\* takes the account off the tracked list.
CursorEntryKept ==
  [][\A a \in Accounts :
       (sinceIdsFile[a] # 0 /\ sinceIdsFile'[a] = 0)
         => (a \in tracked /\ a \notin tracked')]_vars

\* C31: from the failed fetch of an account to the end of the run, every
\* step (the writes of the two files included) leaves the account's cursor
\* and its archive entry as they are, and nothing of the account is handed
\* to the push.
FailedFetchLeavesAccount ==
  [][\A a \in Accounts :
       (pc = "loop" /\ outcome'[a] \in {"err", "auth"}) =>
         /\ sinceIdsFile'[a] = sinceIdsFile[a]
         /\ snapshotFile'[a] = snapshotFile[a]
         /\ ForwardedToNotion(a)' = {}]_vars

\* the files were written by a run in which the fetch of an account failed
\* that has a cursor, an archive entry and a tweet above the cursor
FailedFetchLeavesAccountWitness ==
  /\ pc = "notion"
  /\ \E a \in Accounts :
       /\ outcome[a] = "err"
       /\ sinceIdsFile[a] # 0
       /\ snapshotFile[a] # <<>>
       /\ \E id \in 1..Len(remote) :
            remote[id].author = a /\ id > sinceIdsFile[a]

\* ================================================= claims, classifier model
Classified == cOut.tweet_type # "none"

\* C4 - Classification tie-break: an item with both a reply-reference and a
\* quote-reference is classified thread or reply, never quote, whatever the
\* side-channel maps hold.
ClassifyTieBreak ==
  (Classified /\ cTweet.replied_to # 0 /\ cTweet.quoted # 0)
    => cOut.tweet_type \in {"thread", "reply"}

\* an item with both references, the quoted tweet in the maps, classified
ClassifyTieBreakWitness ==
  /\ Classified
  /\ cTweet.replied_to # 0 /\ cTweet.quoted # 0
  /\ cTweetsMap[QuotedId].present
  /\ cOut.original_tweet.id = RepliedToId

\* C5 - For an item with a reply-reference: kind thread only when the
\* replied-to item was written by the item's own author, and kind reply when
\* it was written by somebody else.
ThreadOnlySameAuthor ==
  (Classified /\ cTweet.replied_to # 0)
    => /\ cOut.tweet_type = "thread" => cParentAuthor = cTweet.author
       /\ cParentAuthor # cTweet.author => cOut.tweet_type = "reply"

\* a self-reply recognised through the parent tweet of the side-channel map,
\* the tweet itself carrying no in_reply_to_user_id
ThreadOnlySameAuthorWitness ==
  /\ cOut.tweet_type = "thread"
  /\ cTweet.in_reply_to_user_id = 0
  /\ cTweetsMap[RepliedToId].author_id = cTweet.author

\* C6 - Classification is total and exclusive: every item gets exactly one of
\* the five kinds and classifying never fails; quote only with a
\* quote-reference and no reply-reference; long_form only with note_tweet and
\* neither reference; original in every remaining case.
ClassifyTotal ==
  /\ ~Classified => ENABLED ClassifyTimelineTweet /\ ENABLED ClassifyBookmark
  /\ Classified =>
       /\ cOut.tweet_type \in {"original", "long_form", "thread", "reply", "quote"}
       /\ cOut.tweet_type = "quote" => (cTweet.quoted # 0 /\ cTweet.replied_to = 0)
       /\ cOut.tweet_type = "long_form" =>
            (cTweet.note_tweet /\ cTweet.replied_to = 0 /\ cTweet.quoted = 0)
       /\ cOut.tweet_type = "original" <=>
            (~cTweet.note_tweet /\ cTweet.replied_to = 0 /\ cTweet.quoted = 0)

\* a quote that is also flagged as extended-length, classified quote
ClassifyTotalWitness ==
  /\ cOut.tweet_type = "quote"
  /\ cTweet.note_tweet

\* the reference classifyTweet works on: the reply-reference when there is
\* one, else the quote-reference (0: the tweet has neither)
ReferenceId == IF cTweet.replied_to # 0 THEN cTweet.replied_to ELSE cTweet.quoted

ReferencedItemAbsent == ~cTweetsMap[ReferenceId].present

ReferencedAuthorAbsent ==
  IF cTweet.replied_to # 0 THEN cParentAuthor \notin cUsersMap
  ELSE \/ ~cTweetsMap[ReferenceId].present
       \/ cTweetsMap[ReferenceId].author_id \notin cUsersMap

KindByReference ==
  /\ cOut.tweet_type \in (IF cTweet.replied_to # 0 THEN {"thread", "reply"}
                          ELSE {"quote"})
  /\ cOut.original_tweet.id = ReferenceId

\* C32 as stated: when the referenced item or its author is missing from the
\* maps, the kind follows the reference type, the referenced id is set, and
\* the text and the author handle are both empty.
MissingDataBothEmpty ==
  (cOut.tweet_type # "none" /\ ReferenceId # 0
     /\ (ReferencedItemAbsent \/ ReferencedAuthorAbsent)) =>
    /\ KindByReference
    /\ cOut.original_tweet.text = 0
    /\ cOut.original_tweet.author_username = 0

\* C32, amended: when the referenced item or its author is missing from the
\* maps, the kind follows the reference type and the referenced id is set;
\* the text is empty when the item is missing, the author handle is empty
\* when the author is missing.
MissingDataDegrades ==
  (cOut.tweet_type # "none" /\ ReferenceId # 0
     /\ (ReferencedItemAbsent \/ ReferencedAuthorAbsent)) =>
    /\ KindByReference
    /\ ReferencedItemAbsent => cOut.original_tweet.text = 0
    /\ ReferencedAuthorAbsent => cOut.original_tweet.author_username = 0

\* a reply whose parent and whose parent's author are both missing was
\* classified
MissingDataDegradesWitness ==
  /\ cOut.tweet_type = "reply"
  /\ cTweet.replied_to # 0
  /\ ReferencedItemAbsent
  /\ ReferencedAuthorAbsent
  /\ cOut.original_tweet.id = cTweet.replied_to
  /\ cOut.original_tweet.text = 0
  /\ cOut.original_tweet.author_username = 0

\* ================================================== claims, transport model
Responses(s) == {i \in 1..Len(s) : s[i] \in Statuses}

\* C9 - Rate-limit recovery: when a GET is answered 429 and the next answer
\* to the call is a 2xx, exactly one request was sent in between, after the
\* wait, and the call returns that result with no error.  The 429 answering
\* the call's request never ends the call itself: what follows it is the
\* wait and the retried request, which only a failing token refresh or a
\* failing connection can cut short.
RateLimitRecovery ==
  method = "GET" =>
    \A k \in Responses(log) :
      log[k] = "r429" =>
        LET later == {j \in Responses(log) : j > k}
            first == {j \in later : \A i \in later : j <= i}
            retried == \E i \in 1..k : log[i] = "forced_refresh_ok"
        IN  /\ \A j \in first :
                 /\ log[k + 1] = "sleep"
                 /\ log[j - 1] = "send"
                 /\ Count(SubSeq(log, k + 1, j - 1), "send") = 1
                 /\ log[j] = "r200" =>
                      (j = Len(log) /\ apc = "done" /\ result = "ok")
            /\ (~retried /\ later = {}) =>
                 /\ apc \in {"sleep", "ensure", "send", "await", "failed"}
                 /\ apc = "sleep" <=> Len(log) = k
                 /\ apc # "sleep" => log[k + 1] = "sleep"
                 /\ apc = "failed" =>
                      log[Len(log)] \in {"ensure_refresh_fail", "throw"}

\* a GET answered 429 and then 200 has returned
RateLimitRecoveryWitness ==
  /\ method = "GET" /\ apc = "done" /\ result = "ok"
  /\ log = <<"send", "r429", "sleep", "send", "r200">>

\* C10 - On 401 the transport forces one token refresh and retries the
\* request exactly once; a 401 (or any other failure) of the retried request
\* ends the call with an error, and nothing more is refreshed or sent.
ForcedRefreshes(s) ==
  {i \in 1..Len(s) : s[i] \in {"forced_refresh_ok", "forced_refresh_fail"}}

RetryOnceOn401 ==
  /\ Cardinality(ForcedRefreshes(log)) <= 1
  /\ \A k \in Responses(log) :
       (log[k] = "r401" /\ \A i \in ForcedRefreshes(log) : i > k) =>
         /\ Len(log) = k <=> apc = "refresh401"
         /\ Len(log) > k => log[k + 1] \in {"forced_refresh_ok", "forced_refresh_fail"}
         /\ (Len(log) > k /\ log[k + 1] = "forced_refresh_fail") =>
              (Len(log) = k + 1 /\ apc = "failed" /\ result = "error")
         /\ (Len(log) > k /\ log[k + 1] = "forced_refresh_ok") =>
              /\ Len(log) <= k + 3
              /\ Len(log) = k + 1 <=> apc = "retry_send"
              /\ Len(log) >= k + 2 => log[k + 2] = "send"
              /\ Len(log) = k + 2 <=> apc = "retry_await"
              /\ Len(log) = k + 3 =>
                   /\ apc \in {"done", "failed"}
                   /\ log[k + 3] # "r200" => (apc = "failed" /\ result = "error")
                   /\ log[k + 3] = "r200" => (apc = "done" /\ result = "ok")

\* a call whose request and retried request were both answered 401
RetryOnceOn401Witness ==
  /\ apc = "failed" /\ result = "error"
  /\ log = <<"send", "r401", "forced_refresh_ok", "send", "r401">>

\* C12 - Every call first ensures token validity: the step that leaves the
\* validity check of a call performs a refresh exchange if and only if
\* now >= expires_at - 300, for every value of expires_at, 0 included.
EnsureValidBeforeRequest ==
  [][(apc = "ensure" /\ apc' # "ensure")
       => ((now >= expiresAt - Skew)
             <=> (log' \in {Append(log, "ensure_refresh_ok"),
                            Append(log, "ensure_refresh_fail")}))]_vars

\* C22: a rate limit never reaches the caller of apiGet: no call ends in an
\* error on a 429 answer, whichever request of the call the 429 answers; the
\* 429 is followed by the wait instead.
RateLimitNeverSurfaced ==
  /\ (method = "GET" /\ result = "error") => log[Len(log)] # "r429"
  /\ (method = "GET" /\ log # <<>> /\ log[Len(log)] = "r429") => apc = "sleep"

\* C29: a response with a status other than 2xx, 401 and 429 ends the call
\* with an error: nothing is sent or refreshed after it, and when it answers
\* the first request of the call, that request is the only one and no token
\* refresh was forced.
OtherStatusFails ==
  \A k \in 1..Len(log) :
    log[k] = "r500" =>
      /\ k = Len(log)
      /\ apc = "failed"
      /\ result = "error"
      /\ log[k - 1] = "send"
      /\ (\A j \in Responses(log) : j >= k) =>
           /\ Count(log, "send") = 1
           /\ ForcedRefreshes(log) = {}

\* a call whose only request was answered with such a status
OtherStatusFailsWitness ==
  /\ apc = "failed" /\ result = "error"
  /\ log = <<"send", "r500">>

\* the requests a call has sent to the API, and the 429 it has received
Sent(s) == Count(s, "send")

Received429(s) == Count(s, "r429")

GetInProgress == method = "GET" /\ apc \notin {"idle", "done", "failed"}

GetEnded == method = "GET" /\ apc \in {"done", "failed"}

\* the call was ended by ensureValidToken: refreshToken threw before the
\* request of this pass was sent
EndedBeforeRequest ==
  Len(log) > 0 /\ log[Len(log)] = "ensure_refresh_fail"

AcceptedBefore(j) == {i \in 1..(j - 1) : exchanges[i].status = "ok"}

\* the persisted credentials are one pair, the one the token endpoint issued
\* last, whenever no response is waiting to be stored; a call that is past
\* its refresh holds what is persisted; every exchange has sent the refresh
\* token of the last accepted exchange before it, never a spent one
CredentialsConsistent ==
  /\ (\A p \in Procs : tpc[p] # "store") =>
        /\ configFile.refresh_token = authValid
        /\ configFile.access_token = authValid
        /\ configFile.token_expires_at <= epoch + ExpiresIn
  /\ \A p \in Procs : tpc[p] \in {"send", "resend"} => config[p] = configFile
  /\ \A j \in 1..Len(exchanges) :
        /\ exchanges[j].sent = 1 + Cardinality(AcceptedBefore(j))
        /\ \A i \in AcceptedBefore(j) : exchanges[j].sent # exchanges[i].sent

RefreshesSerialized ==
  /\ \A i, j \in 1..Len(exchanges) :
        (i < j /\ exchanges[i].sent = exchanges[j].sent) =>
           exchanges[i].status = "rejected"
  /\ (\A p \in Procs : tpc[p] = "idle") =>
        /\ configFile.refresh_token = authValid
        /\ configFile.access_token = authValid

\* ================================================= claims, own-feed model
\* no two items with the same id; created_at never increases down the array
Deduplicated(tweets) ==
  \A i, j \in 1..Len(tweets) : i # j => tweets[i].id # tweets[j].id

NewestFirst(tweets) ==
  \A i, j \in 1..Len(tweets) : i < j => tweets[i].created_at >= tweets[j].created_at

\* C14 - Archive invariant: after any sequence of syncs and post-tweet
\* recordings the persisted own-items archive has no two items with the same
\* id and is sorted newest-first by created_at.
ArchiveInvariant == Deduplicated(allFile) /\ NewestFirst(allFile)


\* ================================================== claims, bookmark files
\* C16: the archive is cumulative: every item some successful sync of the
\* feed has fetched is still held by the feed's files (latest.json, the file
\* of the day or the file of an earlier day).
ArchiveCumulative ==
  bmFetched \subseteq (SeqIds(bmLatest) \cup SeqIds(bmSnapshot) \cup bmOlder)

\* ==================================================== claims, record store
\* C19: the push is idempotent: the store never holds two pages of the same
\* type and Tweet ID, and a push whose items all exist already creates
\* nothing and returns 0.
PushIdempotent ==
  /\ \A k \in PageKeys : notionPages[k] <= 1
  /\ pushResult.allExisted => pushResult.created = 0

SyncRemovesUnfollowed ==
  [][lastOp' = "sync" =>
       /\ \A u \in filtered :
            (u \notin following /\ u \notin manualInclude) => u \notin filtered'
       /\ \A u \in filtered : u \in manualInclude => u \in filtered'
       /\ manualInclude' = manualInclude
       /\ manualExclude' = manualExclude]_vars

\* a sync has just reported one unfollowed account as removed, which is off
\* filtered.json, and another as kept, which is still on it
SyncRemovesUnfollowedWitness ==
  /\ lastOp = "sync"
  /\ \E u \in syncReport.removable : u \notin filtered /\ u \notin following
  /\ \E u \in syncReport.protected_ :
       u \in filtered /\ u \in manualInclude /\ u \notin following

\* C37: no username is in both manual_include.json and manual_exclude.json,
\* and no account of manual_exclude.json is in filtered.json.
ManualListsConsistent ==
  /\ manualInclude \cap manualExclude = {}
  /\ manualExclude \cap filtered = {}

\* C38: no account is both in pending.json and in filtered.json (the lists
\* are sets of account ids here: an id appears in each of them once).
PendingNotTracked == pending \cap filtered = {}

\* C39: every account that an approve takes out of pending.json is in
\* filtered.json afterwards, every account that a reject takes out of it is
\* in manual_exclude.json afterwards, also when the command ends part-way.
ApproveRejectConserve ==
  [][/\ lastOp' = "approve" => (pending \ pending') \subseteq filtered'
     /\ lastOp' = "reject" => (pending \ pending') \subseteq manualExclude']_vars

\* ========================================================= claims, digest
\* the version of every tweet the digest ranks: the one of the following
\* file, or the one of the bookmarks file for a tweet only found there;
\* replies and tweets of other days are no candidates
DigestCandidates ==
  LET ft == {ftTweets[i] : i \in 1..Len(ftTweets)}
      bm == {bmEntries[i] : i \in 1..Len(bmEntries)}
      versions == ft \cup {t \in bm : \A f \in ft : f.id # t.id}
  IN  {t \in versions : ~t.reply /\ t.on_date}

\* likes + 3 x retweets + 2 x bookmarks, 0 without metrics
DigestScore(t) ==
  IF t.has_metrics THEN t.like_count + 3 * t.retweet_count + 2 * t.bookmark_count
  ELSE 0

KnownAt ==
  IF incRun.last_id # 0 /\ incRun.last_id \in SeqIds(bmFeed)
  THEN CHOOSE k \in 1..Len(bmFeed) : bmFeed[k] = incRun.last_id
  ELSE 0

\* the number of the page that holds item k
PageOf(k) == ((k - 1) \div BookmarkPageSize) + 1

\* C24: the run requests the pages in order up to the one that holds the
\* known id and none behind it (all pages when the feed does not hold it),
\* the new bookmarks are the items in front of the known id in feed order,
\* last_id becomes the first of them, and stays when there is none.
BookmarkEarlyStop ==
  incRun.ran =>
    /\ incRun.pages = IF KnownAt # 0 THEN PageOf(KnownAt)
                      ELSE IF bmFeed = <<>> THEN 1
                      ELSE PageOf(Len(bmFeed))
    /\ incRun.new = IF KnownAt # 0 THEN SubSeq(bmFeed, 1, KnownAt - 1)
                    ELSE bmFeed
    /\ incRun.new # <<>> => stateLastId = bmFeed[1]
    /\ incRun.new = <<>> => stateLastId = incRun.last_id

\* the known id stood on the first of two pages, behind a new bookmark: one
\* page was requested and last_id moved to the new bookmark
BookmarkEarlyStopWitness ==
  /\ incRun.ran
  /\ Len(bmFeed) > BookmarkPageSize
  /\ KnownAt = 2
  /\ incRun.pages = 1
  /\ Len(incRun.new) = 1
  /\ stateLastId = bmFeed[1]
  /\ stateLastId # incRun.last_id

\* every conversation with two or more members in the archive is numbered
\* 1..n without duplicates
ThreadsNumbered(tweets) ==
  \A i \in 1..Len(tweets) :
    LET G == {j \in 1..Len(tweets) :
                tweets[j].conversation_id = tweets[i].conversation_id}
    IN  (tweets[i].conversation_id # 0 /\ Cardinality(G) >= 2)
          => /\ {tweets[j].thread_position : j \in G} = 1..Cardinality(G)
             /\ \A j, k \in G : j # k =>
                  tweets[j].thread_position # tweets[k].thread_position

\* C25: in every archive a sync has persisted (the followed accounts' daily
\* archive, the bookmarks' daily archive, the cumulative latest.json) each
\* conversation with n >= 2 members carries the positions 1..n, no duplicates.
ArchivesThreadsNumbered ==
  /\ \A a \in Accounts : ThreadsNumbered(snapshotFile[a])
  /\ ThreadsNumbered(incDaily)
  /\ ThreadsNumbered(incLatest)

\* ================================================ claims, thread positions
\* C26: a second call of assignThreadPositions on an array it has processed,
\* nothing added or removed, leaves every thread_position as it is, also
\* when items of a conversation have equal or missing created_at.
AssignIdempotent ==
  thrCalls >= 2 => thrTweets = thrBefore

\* two calls on a conversation of three items: two with the same created_at,
\* one without created_at
AssignIdempotentWitness ==
  /\ thrCalls = 2
  /\ \E i, j, k \in 1..Len(thrTweets) :
       /\ i < j
       /\ thrTweets[i].conversation_id # 0
       /\ thrTweets[j].conversation_id = thrTweets[i].conversation_id
       /\ thrTweets[k].conversation_id = thrTweets[i].conversation_id
       /\ thrTweets[i].created_at = thrTweets[j].created_at
       /\ thrTweets[i].created_at # 0
       /\ thrTweets[k].created_at = 0
       /\ thrTweets[k].thread_position = 1
       /\ thrTweets[i].thread_position + 1 = thrTweets[j].thread_position

\* ======================================================= claims, merges
\* what a tweet holds apart from the position derived after the merge
Content(t) ==
  [created_at |-> t.created_at, id |-> t.id,
   conversation_id |-> t.conversation_id, metrics |-> t.metrics]

RECURSIVE ConcatData(_)
ConcatData(responses) ==
  IF responses = <<>> THEN <<>>
  ELSE responses[1].data \o ConcatData(Tail(responses))

RECURSIVE ConcatIncludes(_, _)
ConcatIncludes(responses, k) ==
  IF responses = <<>> THEN <<>>
  ELSE responses[1].includes[k] \o ConcatIncludes(Tail(responses), k)

\* C28: the first request carries no pagination token and every later one
\* the next_token of the response before it; the call goes on exactly while
\* the last response carried a next_token; what it returns is the items of
\* all pages in page order, each once, and the included objects of all
\* pages per key.
FetchAllPagesCorrect ==
  /\ \A r \in 1..Len(fapRequests) :
       fapRequests[r] = IF r = 1 THEN 0 ELSE fapResponses[r - 1].next_token
  /\ \A r \in 1..Len(fapResponses) :
       r < Len(fapResponses) => fapResponses[r].next_token # 0
  /\ (fapPc = "loop" /\ fapResponses # <<>>) =>
       fapResponses[Len(fapResponses)].next_token # 0
  /\ fapPc = "returned" =>
       /\ Len(fapRequests) = Len(fapResponses)
       /\ fapResponses[Len(fapResponses)].next_token = 0
       /\ allData = ConcatData(fapResponses)
       /\ \A k \in IncludeKeys : allIncludes[k] = ConcatIncludes(fapResponses, k)

\* a call returned after three pages, each with items and included users
FetchAllPagesWitness ==
  /\ fapPc = "returned"
  /\ Len(fapResponses) = 3
  /\ \A r \in 1..3 : /\ fapResponses[r].data # <<>>
                     /\ fapResponses[r].includes["users"] # <<>>
  /\ Len(allData) > Len(fapResponses[3].data)

\* ================================================ claims, rate-limit wait
\* C35: for every value of the reset header the argument of Bun.sleep is a
\* number of milliseconds between 1 second and 900 seconds.
WaitClamped ==
  wpc = "sleep" =>
    /\ ~waitMs.nan
    /\ waitMs.v >= MinWaitMs
    /\ waitMs.v <= MaxWaitMs

\* ===================================================== claims, feeds together
\* a step of the sync of one feed leaves the archive and the cursor of the
\* other feeds as they were
FeedFrame ==
  [][\A f \in Feeds :
       feedPc'[f] # feedPc[f] =>
         /\ \A g \in Feeds \ {f} : feedArchive'[g] = feedArchive[g]
         /\ \A g \in CursorFeeds \ {f} : feedCursor'[g] = feedCursor[g]]_vars

\* what the sync of feed f leaves behind when it runs alone
SyncedAlone(f) ==
  /\ feedArchive[f] = feedRemote[f]
  /\ f \in CursorFeeds => feedCursor[f] = Newest(feedRemote[f])

\* C36: the syncs of different feeds, run in any interleaving, leave the
\* archives and cursors that they leave when run one after the other: once
\* every started sync has ended, each of them has brought its own feed's
\* archive and cursor up to date.
InterleavingLikeSequence ==
  (\A f \in Feeds : feedPc[f] \in {"idle", "done", "failed"}) =>
    \A f \in Feeds : feedPc[f] # "idle" => SyncedAlone(f)

\* ============================================ claims, forwarding to the store
\* C40: every item merged into the archive is eventually created in the
\* record store, provided the sync keeps running and pushes succeed in the
\* end.
ArchivedEventuallyStored ==
  \A id \in 1..MaxFeedIds : (id \in fwArchive) ~> (id \in fwStore)

====
